---- MODULE Spec2Model ----
(***************************************************************************)
(* Authorship aggregation engine of mkdocs-git-authors-plugin.             *)
(*                                                                         *)
(* The model follows the classes of the source:                            *)
(*   GitCommand  mkdocs_git_authors_plugin/repo.py                         *)
(*   Repo        src/mkdocs_git_authors_plugin/git/repo.py                 *)
(*   Commit      src/mkdocs_git_authors_plugin/git/commit.py               *)
(*   Page        mkdocs_git_authors_plugin/git/page.py                     *)
(*   Author      mkdocs_git_authors_plugin/repo.py                         *)
(* The git repository (what `git blame --porcelain` prints for a path) is  *)
(* the environment; it is fixed when a build starts.                       *)
(***************************************************************************)
EXTENDS Integers, Sequences, FiniteSets, TLC

(***************************************************************************)
(* Bounds                                                                  *)
(***************************************************************************)
\* Largest number of content lines over all files of the git work tree.
MaxLines == 2

\* Largest number of consecutive lines of one commit in the files of the
\* worlds in which the author lists are rendered.
MaxRun == 2

(***************************************************************************)
(* The universe of the environment                                         *)
(***************************************************************************)
Paths == {"p1", "p2"}

SHAs == {"c1", "c2", "c3"}

\* The hash git blame prints for a line that is not committed yet.
ZeroSha == "0000000000000000000000000000000000000000"

AllSHAs == SHAs \cup {ZeroSha}

NoneVal == "None"

\* What git knows about each commit: the values `git blame --porcelain`
\* prints in the metadata block of the first record of a commit in a file.
\* c1 and c2 carry the same email with different display names. trailers
\* are the Co-authored-by lines of the commit message: c1 names John twice,
\* with the email as c3 writes it and with the same email in capitals, and
\* c3 names its own author. The last entry is the metadata block of a line
\* that is not committed yet.
CommitMeta ==
    [c1 |-> [author |-> "Tim",  mail |-> "<abc@abc.com>",
             time |-> "1580742131", tz |-> "+0100", summary |-> "initial commit",
             trailers |-> <<[name |-> "John", mail |-> "John@ABC.com"],
                            [name |-> "John", mail |-> "john@abc.com"]>>],
     c2 |-> [author |-> "Tim2", mail |-> "<abc@abc.com>",
             time |-> "1581087731", tz |-> "+0100", summary |-> "another commit",
             trailers |-> <<>>],
     c3 |-> [author |-> "John", mail |-> "<john@abc.com>",
             time |-> "1581433331", tz |-> "-0230", summary |-> "third commit",
             trailers |-> <<[name |-> "John", mail |-> "john@abc.com"]>>]]
      @@ (ZeroSha :>
            [author |-> "Not Committed Yet", mail |-> "<not.committed.yet>",
             time |-> "1583342617", tz |-> "+0100",
             summary |-> "Version of f from f", trailers |-> <<>>])

\* The content of a line: the text after the TAB of a porcelain content line.
Texts == {"", "x"}

\* The lines of the files: a line of text of any commit, and the empty
\* line, which the files of the model have from c1.
FileLines == {l \in [sha : SHAs, text : Texts] : l.text = "" => l.sha = "c1"}

RECURSIVE SeqsUpTo(_, _)
SeqsUpTo(S, n) ==
    IF n = 0 THEN {<<>>}
    ELSE LET shorter == SeqsUpTo(S, n - 1)
         IN  shorter \cup {Append(s, x) : s \in {t \in shorter : Len(t) = n - 1}, x \in S}

\* The outcome of `git blame --porcelain <path>`: the command fails (the file
\* has no history) or it attributes every line of the file to a commit.
BlameOutcomes ==
    {[ok |-> FALSE, lines |-> <<>>]}
      \cup {[ok |-> TRUE, lines |-> l] : l \in SeqsUpTo(FileLines, MaxLines)}

\* The work trees of the model. The two paths are interchangeable names, so
\* of two work trees that differ by swapping them the one whose longer file
\* is p1 is listed.
Worlds ==
    {w \in [Paths -> BlameOutcomes] :
        /\ Len(w["p1"].lines) + Len(w["p2"].lines) <= MaxLines
        /\ Len(w["p1"].lines) >= Len(w["p2"].lines)}

\* The plugin configurations handed to Repo.set_config: every combination of
\* count_empty_lines, the display options and strict; and, with the default
\* display options, one of ignore_authors, ignore_commits, exclude and
\* add_co_authors in use, the last with and without strict.
Configs ==
    {c \in [count_empty_lines : BOOLEAN,
            show_contribution : BOOLEAN,
            show_line_count   : {FALSE},
            sort_authors_by   : {"name", "contribution"},
            sort_reverse      : {"None"},
            strict            : BOOLEAN,
            ignore_authors    : {{}, {"john@abc.com"}},
            ignore_commits    : {{}, {"c3"}},
            exclude           : {{}, {"p2"}},
            add_co_authors    : BOOLEAN,
            fallback_to_empty : {FALSE}] :
        /\ Cardinality({k \in {"ignore_authors", "ignore_commits", "exclude"} :
                            c[k] # {}}) + (IF c.add_co_authors THEN 1 ELSE 0) <= 1
        /\ c.strict => (c.ignore_authors = {} /\ c.ignore_commits = {}
                          /\ c.exclude = {})
        /\ (c.ignore_authors # {} \/ c.ignore_commits # {} \/ c.exclude # {}
              \/ c.add_co_authors)
               => (~c.show_contribution /\ c.sort_authors_by = "name")}

\* A file of i lines of text of commit a followed by j lines of commit b.
RECURSIVE Run(_, _)
Run(sha, n) ==
    IF n = 0 THEN <<>> ELSE <<[sha |-> sha, text |-> "x"]>> \o Run(sha, n - 1)

\* The work trees in which the author lists are rendered: one committed
\* file p1 with lines of at most two commits, and a file p2 without history.
DisplayWorlds ==
    {[p \in Paths |-> IF p = "p1" THEN [ok |-> TRUE, lines |-> Run(a, i) \o Run(b, j)]
                      ELSE [ok |-> FALSE, lines |-> <<>>]] :
        a \in SHAs, b \in SHAs, i \in 1..MaxRun, j \in 0..MaxRun}

\* The configurations in which the author lists are rendered: every
\* combination of the display options. sort_reverse is "None" for the
\* plugin's configuration, which has no such key (config.py 21), "False"
\* for the DEFAULT_CONFIG of tests/test_util.py, and "True" for a
\* configuration dictionary that sets it.
DisplayConfigs ==
    [count_empty_lines : {TRUE},
     show_contribution : BOOLEAN,
     show_line_count   : BOOLEAN,
     sort_authors_by   : {"name", "contribution"},
     sort_reverse      : {"None", "False", "True"},
     strict            : {FALSE},
     ignore_authors    : {{}},
     ignore_commits    : {{}},
     exclude           : {{}},
     add_co_authors    : {FALSE},
     fallback_to_empty : {FALSE}]

\* What `git log -1 <sha>` prints, line by line: the commit line, the
\* Author line, the date, the message and its Co-authored-by trailers.
LogOf(sha) ==
    <<[kind |-> "commit", val |-> sha],
      [kind |-> "Author:", val |-> CommitMeta[sha].author],
      [kind |-> "Date:", val |-> CommitMeta[sha].time],
      [kind |-> "message", val |-> CommitMeta[sha].summary]>>
      \o [i \in 1..Len(CommitMeta[sha].trailers) |->
             [kind |-> "Co-authored-by:", val |-> CommitMeta[sha].trailers[i]]]

\* The outcomes of `git log -1 <sha>` over the commits: every log can be
\* retrieved, or the log of c2 cannot (the command exits non-zero). For
\* the hash of the lines not committed yet git log exits with 'bad object'.
LogWorlds ==
    {[sha \in AllSHAs |-> [ok |-> sha \notin failing \cup {ZeroSha}]] :
        failing \in {{}, {"c2"}}}

EmptyFn == [x \in {} |-> x]

VARIABLES
    gitBlame,       \* environment: path -> outcome of git blame for that path
    gitLog,         \* environment: sha -> outcome of git log -1 for that commit
    config,         \* Repo._config
    total_lines,    \* Repo._total_lines
    commits,        \* Repo._commits : sha -> Commit
    authors,        \* Repo._authors : insertion-ordered dict, as a sequence of Author
    pages,          \* Repo._pages   : path -> Page
    blameRuns,      \* path -> number of times GitCommand('blame', path).run() was executed
    logRuns,        \* sha -> number of times GitCommand('log', ['-1', sha]).run() was executed
    ret,            \* outcome of the last call made by the host
    gitRoot,        \* environment: outcome of the repository discovery of on_config
    docs,           \* environment: path -> suffix of the file in the files collection
    plugin,         \* GitAuthorsPlugin: whether _repo is set, and _fallback
    build,          \* the position of the host in the build
    gc,             \* a GitCommand: _command, _args, _stdout, _stderr, _completed
    proc,           \* environment: the last git process run for gc, and whether one exited with 0
    ci              \* the process's working directory and the position in raise_ci_warnings

vars == <<gitBlame, gitLog, config, total_lines, commits, authors, pages, blameRuns,
          logRuns, ret, gitRoot, docs, plugin, build, gc, proc, ci>>

(***************************************************************************)
(* Python values and conversions used by the code                          *)
(***************************************************************************)
\* int(author_time)
ParseInt ==
    [t \in {"1580742131", "1581087731", "1581433331", "1583342617"} |->
        CASE t = "1580742131" -> 1580742131
          [] t = "1581087731" -> 1581087731
          [] t = "1581433331" -> 1581433331
          [] t = "1583342617" -> 1583342617]

\* timedelta(hours=int(tz[:3]), minutes=int(tz[0] + tz[3:])), in minutes
TzMinutes ==
    [z \in {"+0100", "-0230"} |->
        CASE z = "+0100" -> (1 * 60) + 0
          [] z = "-0230" -> ((0 - 2) * 60) + (0 - 30)]

\* re.sub(r"\<|\>", "", author_email)
StripAngleBrackets ==
    [m \in {"<abc@abc.com>", "<john@abc.com>", "abc@abc.com", "john@abc.com",
            "John@ABC.com", "<not.committed.yet>", "not.committed.yet"} |->
        CASE m = "<abc@abc.com>"  -> "abc@abc.com"
          [] m = "<john@abc.com>" -> "john@abc.com"
          [] m = "<not.committed.yet>" -> "not.committed.yet"
          [] OTHER                -> m]

\* str.lower()
Lower ==
    [m \in {"abc@abc.com", "john@abc.com", "John@ABC.com", "not.committed.yet"} |->
        CASE m = "abc@abc.com"  -> "abc@abc.com"
          [] m = "john@abc.com" -> "john@abc.com"
          [] m = "John@ABC.com" -> "john@abc.com"
          [] m = "not.committed.yet" -> "not.committed.yet"]

\* Python's order on str, over the display names of the universe.
NamesAscending == <<"John", "Not Committed Yet", "Tim", "Tim2">>

\* dt.strftime("%c %z") of the instants and offsets of the universe.
Strftime ==
    [d \in {[instant |-> 1580742131, offset |-> 60],
            [instant |-> 1581087731, offset |-> 60],
            [instant |-> 1581433331, offset |-> 0 - 150],
            [instant |-> 1583342617, offset |-> 60]} |->
        CASE d.instant = 1580742131 -> "Mon Feb  3 16:02:11 2020 +0100"
          [] d.instant = 1581087731 -> "Fri Feb  7 16:02:11 2020 +0100"
          [] d.instant = 1581433331 -> "Tue Feb 11 12:32:11 2020 -0230"
          [] d.instant = 1583342617 -> "Wed Mar  4 18:23:37 2020 +0100"]

\* Python's order on str, over the formatted datetimes of the universe.
DatetimeStringsAscending ==
    <<"Fri Feb  7 16:02:11 2020 +0100",
      "Mon Feb  3 16:02:11 2020 +0100",
      "Tue Feb 11 12:32:11 2020 -0230",
      "Wed Mar  4 18:23:37 2020 +0100">>

IndexIn(seq, x) == CHOOSE i \in 1..Len(seq) : seq[i] = x

\* a < b on str
StrLess(order, a, b) == IndexIn(order, a) < IndexIn(order, b)

\* util.commit_datetime
commit_datetime(author_time, author_tz) ==
    [instant |-> ParseInt[author_time], offset |-> TzMinutes[author_tz]]

\* util.commit_datetime_string
commit_datetime_string(dt) == Strftime[dt]

(***************************************************************************)
(* git blame --porcelain                                                   *)
(***************************************************************************)
TextLine(k, v) == [kind |-> k, val |-> v]

\* The records git prints for line i of a file: the header with the hash,
\* the metadata block when the hash is seen for the first time in this file,
\* and the content line.
PorcelainRecord(lines, i) ==
    LET sha   == lines[i].sha
        first == \A j \in 1..(i - 1) : lines[j].sha # sha
        meta  == CommitMeta[sha]
    IN  <<TextLine("sha", sha)>>
          \o (IF first
              THEN <<TextLine("author", meta.author),
                     TextLine("author-mail", meta.mail),
                     TextLine("author-time", meta.time),
                     TextLine("author-tz", meta.tz),
                     TextLine("committer", meta.author),
                     TextLine("summary", meta.summary),
                     TextLine("filename", "f")>>
              ELSE <<>>)
          \o <<TextLine("content", lines[i].text)>>

RECURSIVE PorcelainFrom(_, _)
PorcelainFrom(lines, i) ==
    IF i > Len(lines) THEN <<>>
    ELSE PorcelainRecord(lines, i) \o PorcelainFrom(lines, i + 1)

\* An output whose records lack the metadata lines of the given kinds.
Without(out, kinds) == SelectSeq(out, LAMBDA l : l.kind \notin kinds)

\* GitCommand.run followed by GitCommand.stdout for 'blame --porcelain path':
\* (a blame outcome with a field lacks is such an output)
\* ok is FALSE when the command exits non-zero (run raises GitCommandError),
\* otherwise out is p.stdout.strip('\'\n').split('\n'), which is one empty
\* line when git printed nothing.
GitCommand_run(path) ==
    LET b == gitBlame[path]
    IN  IF ~b.ok THEN [ok |-> FALSE, out |-> <<>>]
        ELSE IF Len(b.lines) = 0 THEN [ok |-> TRUE, out |-> <<TextLine("blank", "")>>]
        ELSE IF "lacks" \in DOMAIN b
        THEN [ok |-> TRUE, out |-> Without(PorcelainFrom(b.lines, 1), b.lacks)]
        ELSE [ok |-> TRUE, out |-> PorcelainFrom(b.lines, 1)]

(***************************************************************************)
(* The objects of a Repo, threaded through the calls as one record h:      *)
(*   total_lines, commits, authors, pages, blameRuns, logRuns as the       *)
(*   variables, add_co_authors: the entry of Repo._config,                 *)
(*   err: the exception propagating out of the call, or "none".            *)
(***************************************************************************)
NoError == "none"

AuthorIndex(h, email) ==
    IF \E i \in 1..Len(h.authors) : h.authors[i].email = email
    THEN CHOOSE i \in 1..Len(h.authors) : h.authors[i].email = email
    ELSE 0

\* Repo.author without the lookup of the registered Author: the entry of the
\* email is replaced by a new Author with the name given.
Repo_author_always_new(h, name, email) ==
    LET new == [name |-> name, email |-> email, pages |-> EmptyFn]
    IN  IF AuthorIndex(h, email) # 0
        THEN [h EXCEPT !.authors[AuthorIndex(h, email)] = new]
        ELSE [h EXCEPT !.authors = Append(@, new)]

\* Repo.author: authors are indexed by email only; an Author is created with
\* the name given when the email is not registered yet.
Repo_author(h, name, email) ==
    IF AuthorIndex(h, email) # 0 THEN h
    ELSE [h EXCEPT !.authors =
              Append(@, [name |-> name, email |-> email, pages |-> EmptyFn])]

\* Commit.__init__
Commit_init(h, sha, cd, co_authors) ==
    IF cd.mail = NoneVal THEN [h EXCEPT !.err = "TypeError"]
    ELSE LET author_email == Lower[StripAngleBrackets[cd.mail]]
             h1 == Repo_author(h, cd.author, author_email)
         IN  IF cd.time = NoneVal \/ cd.tz = NoneVal
             THEN [h1 EXCEPT !.err = "TypeError"]
             ELSE LET dt == commit_datetime(cd.time, cd.tz)
                  IN  [h1 EXCEPT !.commits = (sha :>
                          [author          |-> author_email,
                           datetime        |-> dt,
                           datetime_string |-> commit_datetime_string(dt),
                           summary         |-> cd.summary,
                           co_authors      |-> co_authors]) @@ @]

\* Repo._get_co_authors, the loop over the lines of the log from line i:
\* the Author line is skipped; a Co-authored-by line with a name and an
\* email yields self.author(name, email), the email as the regular
\* expression captured it. acc is the list of co-authors so far.
RECURSIVE CoAuthorsFrom(_, _, _, _)
CoAuthorsFrom(h, out, i, acc) ==
    IF i > Len(out) THEN [h |-> h, val |-> acc]
    ELSE IF out[i].kind = "Co-authored-by:"
            /\ out[i].val.name # "" /\ out[i].val.mail # ""
    THEN CoAuthorsFrom(Repo_author(h, out[i].val.name, out[i].val.mail),
                       out, i + 1, Append(acc, out[i].val.mail))
    ELSE CoAuthorsFrom(h, out, i + 1, acc)

\* Repo._get_co_authors(sha): run git log -1 sha, which raises
\* GitCommandError when the command fails, and collect the co-authors.
Repo_get_co_authors(h, sha) ==
    IF ~gitLog[sha].ok
    THEN [h |-> [h EXCEPT !.logRuns[sha] = @ + 1, !.err = "GitCommandError"],
          val |-> <<>>]
    ELSE CoAuthorsFrom([h EXCEPT !.logRuns[sha] = @ + 1], LogOf(sha), 1, <<>>)

\* Repo.get_commit, the construction self._commits[sha] = Commit(...): r is
\* the outcome of self._get_co_authors(sha).
Repo_get_commit_new(r, sha, cd) ==
    IF r.h.err # NoError THEN r.h
    ELSE Commit_init(r.h, sha, cd, r.val)

\* Repo.get_commit without the lookup of the stored Commit.
Repo_get_commit_uncached(h, sha, cd) ==
    IF h.add_co_authors
    THEN Repo_get_commit_new(Repo_get_co_authors(h, sha), sha, cd)
    ELSE Commit_init(h, sha, cd, <<>>)

\* Repo.get_commit: the stored Commit of the hash, or a new Commit, with
\* its co-authors when add_co_authors is set.
Repo_get_commit(h, sha, cd) ==
    IF sha \in DOMAIN h.commits THEN h
    ELSE IF h.add_co_authors
    THEN Repo_get_commit_new(Repo_get_co_authors(h, sha), sha, cd)
    ELSE Commit_init(h, sha, cd, <<>>)

\* Commit.datetime(_type): the formatted string for str, else the datetime.
Commit_datetime(commit, asStr) ==
    IF asStr THEN commit.datetime_string ELSE commit.datetime

\* Author.page(path, page) with a Page passed: the entry of the author for
\* the path, created with 0 lines when there is none.
Author_page_entry(h, email, path) ==
    LET i == AuthorIndex(h, email)
    IN  IF path \in DOMAIN h.authors[i].pages THEN h
        ELSE [h EXCEPT !.authors[i].pages = (path :>
                 [lines |-> 0, datetime |-> NoneVal, datetime_str |-> NoneVal]) @@ @]

\* Author.add_lines(page, commit, lines=1). commit.datetime() is called with
\* its default _type=str, so the values compared and stored are the
\* formatted strings.
Author_add_lines(h, email, path, commit) ==
    LET h1         == Author_page_entry(h, email, path)
        i          == AuthorIndex(h1, email)
        entry      == h1.authors[i].pages[path]
        current_dt == entry.datetime
        commit_dt  == Commit_datetime(commit, TRUE)
        newer      == current_dt = NoneVal
                        \/ StrLess(DatetimeStringsAscending, current_dt, commit_dt)
    IN  [h1 EXCEPT !.authors[i].pages[path] =
            [lines        |-> entry.lines + 1,
             datetime     |-> IF newer THEN commit_dt ELSE entry.datetime,
             datetime_str |-> IF newer THEN Commit_datetime(commit, TRUE)
                              ELSE entry.datetime_str]]

\* Repo.add_total_lines
Repo_add_total_lines(h) == [h EXCEPT !.total_lines = @ + 1]

\* A Page whose add_total_lines leaves the total alone.
Page_add_total_lines_skipped(pg) == pg

\* Page.add_total_lines
Page_add_total_lines(pg) == [pg EXCEPT !.total_lines = @ + 1]

InSeq(seq, x) == \E i \in 1..Len(seq) : seq[i] = x

NoCommitData ==
    [sha |-> NoneVal, author |-> NoneVal, mail |-> NoneVal, time |-> NoneVal,
     tz |-> NoneVal, summary |-> NoneVal]

\* Page._process_git_blame, lines 188-194: a content line whose commit is
\* resolved is counted when it is not empty or count_empty_lines is set.
CountLine(st, line) ==
    IF line.val # "" \/ config.count_empty_lines
    THEN LET commit == st.h.commits[st.cd.sha]
             author == commit.author
             pg1    == IF InSeq(st.pg.authors, author) THEN st.pg
                       ELSE [st.pg EXCEPT !.authors = Append(@, author)]
             h1     == Author_add_lines(st.h, author, st.path, commit)
         IN  [st EXCEPT !.pg = Page_add_total_lines(pg1),
                        !.h  = Repo_add_total_lines(h1)]
    ELSE st

\* The body of the loop that resolves the commit of a countable line only.
ParseLine_countable_only(st, line) ==
    CASE line.kind = "sha" ->
            [st EXCEPT !.cd = [NoCommitData EXCEPT !.sha = line.val]]
      [] line.kind = "author"      -> [st EXCEPT !.cd.author = line.val]
      [] line.kind = "author-mail" -> [st EXCEPT !.cd.mail = line.val]
      [] line.kind = "author-time" -> [st EXCEPT !.cd.time = line.val]
      [] line.kind = "author-tz"   -> [st EXCEPT !.cd.tz = line.val]
      [] line.kind = "summary"     -> [st EXCEPT !.cd.summary = line.val]
      [] line.kind = "content" /\ (line.val # "" \/ config.count_empty_lines) ->
            LET h1 == Repo_get_commit(st.h, st.cd.sha, st.cd)
            IN  IF h1.err # NoError THEN [st EXCEPT !.h = h1]
                ELSE CountLine([st EXCEPT !.h = h1], line)
      [] OTHER -> st

\* Page._process_git_blame, the body of the loop over cmd.stdout() for one
\* line of text. st holds the Repo objects h, the Page being built pg, its
\* path and commit_data cd.
ParseLine(st, line) ==
    CASE line.kind = "sha" ->
            [st EXCEPT !.cd = [NoCommitData EXCEPT !.sha = line.val]]
      [] line.kind = "author"      -> [st EXCEPT !.cd.author = line.val]
      [] line.kind = "author-mail" -> [st EXCEPT !.cd.mail = line.val]
      [] line.kind = "author-time" -> [st EXCEPT !.cd.time = line.val]
      [] line.kind = "author-tz"   -> [st EXCEPT !.cd.tz = line.val]
      [] line.kind = "summary"     -> [st EXCEPT !.cd.summary = line.val]
      [] line.kind = "content" ->
            LET h1 == Repo_get_commit(st.h, st.cd.sha, st.cd)
            IN  IF h1.err # NoError THEN [st EXCEPT !.h = h1]
                ELSE CountLine([st EXCEPT !.h = h1], line)
      [] OTHER -> st

RECURSIVE ParseLines(_, _, _)
ParseLines(st, out, i) ==
    IF i > Len(out) \/ st.h.err # NoError THEN st
    ELSE ParseLines(ParseLine(st, out[i]), out, i + 1)

\* Page._process_git_blame: run git blame and parse what it printed.
Page_process_git_blame(st) ==
    LET cmd == GitCommand_run(st.path)
        st1 == [st EXCEPT !.h.blameRuns[st.path] = @ + 1]
    IN  IF ~cmd.ok THEN [st1 EXCEPT !.h.err = "GitCommandError"]
        ELSE ParseLines(st1, cmd.out, 1)

\* Page.__init__, the assignments before the try statement: the Page being
\* built has no lines and no authors, and is not sorted.
Page_new(h, path) ==
    [h    |-> h,
     path |-> path,
     pg   |-> [total_lines |-> 0, authors |-> <<>>, sorted |-> FALSE],
     cd   |-> NoCommitData]

\* Page.__init__, the except clause: st is the outcome of the try block.
Page_init_except(st) ==
    IF st.h.err = "GitCommandError"
    THEN [st EXCEPT !.h.err = NoError]
    ELSE st

\* Page.__init__ without the except clause: the GitCommandError of the
\* blame propagates.
Page_init_uncaught(h, path) ==
    Page_process_git_blame(Page_new(h, path))

\* Page.__init__(repo, path): a GitCommandError of the blame is logged as
\* a warning ('has not been committed yet') and not raised again.
Page_init(h, path) ==
    Page_init_except(Page_process_git_blame(Page_new(h, path)))

\* Repo.page, the assignment self._pages[path] = Page(...): st is the outcome
\* of the constructor, and nothing is assigned when it raised.
Repo_page_store(st, path) ==
    IF st.h.err # NoError THEN st.h
    ELSE [st.h EXCEPT !.pages = (path :> st.pg) @@ @]

\* Repo.page(path): the cached Page, or a new Page built with
\* Page(self, path, self.config("strict")) and stored.
Repo_page(h, path) ==
    IF path \in DOMAIN h.pages THEN h
    ELSE Repo_page_store(Page_init(h, path), path)

\* Author.page, the assignment data = self._pages[path] = {'page': ...,
\* 'lines': 0}: h1 is the outcome of evaluating the dict display, i the
\* author, and nothing is assigned when the evaluation raised.
Author_page_assign(h1, i, path) ==
    IF h1.err # NoError THEN h1
    ELSE [h1 EXCEPT !.authors[i].pages = (path :>
             [lines |-> 0, datetime |-> NoneVal, datetime_str |-> NoneVal]) @@ @]

\* Author.page(path), no Page passed: when the author has no entry for the
\* path, the entry is built from self.repo().page(path) and 0 lines and then
\* assigned to self._pages[path].
Author_page(h, email, path) ==
    IF path \in DOMAIN h.authors[AuthorIndex(h, email)].pages THEN h
    ELSE Author_page_assign(Repo_page(h, path), AuthorIndex(h, email), path)

RECURSIVE SumOver(_, _)
SumOver(f, S) ==
    IF S = {} THEN 0
    ELSE LET x == CHOOSE y \in S : TRUE
         IN  f[x] + SumOver(f, S \ {x})

\* Author.lines(path=None) for no path: the sum over the author's entries.
Author_lines_all(h, email) ==
    LET a == h.authors[AuthorIndex(h, email)]
    IN  SumOver([p \in DOMAIN a.pages |-> a.pages[p].lines], DOMAIN a.pages)

(***************************************************************************)
(* Contribution and sorting                                                *)
(***************************************************************************)
\* The float lines / total_lines, kept as the pair of integers; the division
\* raises ZeroDivisionError when total_lines is 0.
Fraction(num, den) == [num |-> num, den |-> den]

FracLess(a, b) == a.num * b.den < b.num * a.den

\* Author.contribution, result = lines / total_lines.
Author_divide(h, lines, total) ==
    IF total = 0
    THEN [h |-> [h EXCEPT !.err = "ZeroDivisionError"], val |-> Fraction(0, 1)]
    ELSE [h |-> h, val |-> Fraction(lines, total)]

\* Author.contribution for a path: h1 is the outcome of self.page(path),
\* which Author.lines(path) calls first.
Author_contribution_page(h1, email, path) ==
    IF h1.err # NoError THEN [h |-> h1, val |-> Fraction(0, 1)]
    ELSE Author_divide(h1, h1.authors[AuthorIndex(h1, email)].pages[path].lines,
                       h1.pages[path].total_lines)

\* Author.contribution(path=None, _type=float): the author's share of a page
\* or, for path None, of the repository. Returns the Repo objects after the
\* call (Author.lines and Author.page may create an entry, and a Page) and
\* the quotient.
Author_contribution(h, email, path) ==
    IF path = NoneVal
    THEN Author_divide(h, Author_lines_all(h, email), h.total_lines)
    ELSE Author_contribution_page(Author_page(h, email, path), email, path)

\* Repo._sort_key: which attribute of an Author is the sort key.
Repo_sort_key_name ==
    IF config.show_line_count \/ config.show_contribution
         \/ config.sort_authors_by = "contribution"
    THEN "contribution"
    ELSE "name"

\* Repo._sort_key(author): func = getattr(author, key); func().
Repo_sort_key(h, email) ==
    IF Repo_sort_key_name = "contribution"
    THEN Author_contribution(h, email, NoneVal)
    ELSE [h |-> h, val |-> h.authors[AuthorIndex(h, email)].name]

\* key(a) < key(b) for two keys of the active kind.
KeyLess(ka, kb) ==
    IF Repo_sort_key_name = "contribution" THEN FracLess(ka, kb)
    ELSE StrLess(NamesAscending, ka, kb)

\* sorted(items, key=..., reverse=...): Python's sort is stable, and with
\* reverse=True items with equal keys keep their original order too.
\* items is a sequence of [item, key].
RECURSIVE InsertSorted(_, _, _)
InsertSorted(done, x, reverse) ==
    IF done = <<>> THEN <<x>>
    ELSE LET last   == done[Len(done)]
             before == IF reverse THEN KeyLess(last.key, x.key)
                       ELSE KeyLess(x.key, last.key)
         IN  IF before
             THEN Append(InsertSorted(SubSeq(done, 1, Len(done) - 1), x, reverse), last)
             ELSE Append(done, x)

RECURSIVE SortedFrom(_, _, _, _)
SortedFrom(items, i, done, reverse) ==
    IF i > Len(items) THEN done
    ELSE SortedFrom(items, i + 1, InsertSorted(done, items[i], reverse), reverse)

\* sorted() leaving the items in the order given.
sorted_as_given(items, reverse) == items

sorted(items, reverse) == SortedFrom(items, 1, <<>>, reverse)

\* The items of a sequence of [item, key].
ItemsOf(s) == [i \in 1..Len(s) |-> s[i].item]

\* Repo.get_authors, the call of sorted: keys[i] is the outcome of
\* self._sort_key for the i-th registered author.
Repo_sorted_by(h, keys, reverse) ==
    IF \E i \in 1..Len(keys) : keys[i].h.err # NoError
    THEN [err |-> "ZeroDivisionError", val |-> <<>>]
    ELSE [err |-> NoError,
          val |-> ItemsOf(sorted([i \in 1..Len(keys) |->
                              [item |-> h.authors[i].email, key |-> keys[i].val]],
                          reverse))]

\* Repo.get_authors: the registered authors sorted by the configured key,
\* descending when line counts or contributions are shown. The result is the
\* error of the first key that cannot be computed, or the sorted list.
Repo_get_authors(h) ==
    Repo_sorted_by(h, [i \in 1..Len(h.authors) |-> Repo_sort_key(h, h.authors[i].email)],
                   config.show_line_count \/ config.show_contribution)

\* Page.get_authors, the call of sorted and the two assignments: keys[i] is
\* the outcome of repo._sort_key for the i-th author of the page.
Page_sorted_by(h, path, keys, reverse) ==
    IF \E i \in 1..Len(keys) : keys[i].h.err # NoError
    THEN [h EXCEPT !.err = "ZeroDivisionError"]
    ELSE [h EXCEPT !.pages[path].authors =
                       ItemsOf(sorted([i \in 1..Len(keys) |->
                                   [item |-> h.pages[path].authors[i],
                                    key  |-> keys[i].val]], reverse)),
                   !.pages[path].sorted = TRUE]

\* Page.get_authors sorting upon every request.
Page_get_authors_every_call(h, path, acceptsNone) ==
    IF config.sort_reverse = "None" /\ ~acceptsNone
    THEN [h EXCEPT !.err = "TypeError"]
    ELSE Page_sorted_by(h, path,
             [i \in 1..Len(h.pages[path].authors) |->
                 Repo_sort_key(h, h.pages[path].authors[i])],
             config.sort_reverse = "True")

\* Page.get_authors: the authors of the page, sorted upon the first request
\* with key=repo._sort_key and reverse=repo.config('sort_reverse'). For a
\* configuration without the key, reverse is None: sorted() raises
\* TypeError in the Python versions that take an int there, and takes None
\* as false in those that take any object (acceptsNone).
Page_get_authors(h, path, acceptsNone) ==
    IF h.pages[path].sorted THEN h
    ELSE IF config.sort_reverse = "None" /\ ~acceptsNone
    THEN [h EXCEPT !.err = "TypeError"]
    ELSE Page_sorted_by(h, path,
             [i \in 1..Len(h.pages[path].authors) |->
                 Repo_sort_key(h, h.pages[path].authors[i])],
             config.sort_reverse = "True")

\* round(x, 0) of the quotient a / b: to the nearest integer, a tie to the
\* even one.
RoundHalfEven(a, b) ==
    IF 2 * (a % b) < b THEN a \div b
    ELSE IF 2 * (a % b) > b THEN (a \div b) + 1
    ELSE IF (a \div b) % 2 = 0 THEN a \div b
    ELSE (a \div b) + 1

\* The quotient a / b cut to an integer.
RoundDown(a, b) == a \div b

\* round(result * 100, 2) cutting the digits after the second decimal.
Round2Percent_cut(fr) == RoundDown(10000 * fr.num, fr.den)

\* round(result * 100, 2), as the number of hundredths.
Round2Percent(fr) == RoundHalfEven(10000 * fr.num, fr.den)

\* str() of the float with the given number of hundredths: the integer
\* part, the point, and one decimal or two.
FloatStr(hundredths) ==
    ToString(hundredths \div 100) \o "."
      \o (IF hundredths % 10 = 0
          THEN ToString((hundredths % 100) \div 10)
          ELSE ToString((hundredths % 100) \div 10) \o ToString(hundredths % 10))

\* Author.contribution, the formatting str(round(result * 100, 2)) + '%' of
\* the outcome r of the division.
Author_contribution_format(r) ==
    IF r.h.err # NoError THEN [h |-> r.h, val |-> NoneVal]
    ELSE [h |-> r.h, val |-> FloatStr(Round2Percent(r.val)) \o "%"]

\* Author.contribution(path, str)
Author_contribution_str(h, email, path) ==
    Author_contribution_format(Author_contribution(h, email, path))

(***************************************************************************)
(* The state machine: the calls a host makes on one Repo                   *)
(***************************************************************************)
Heap ==
    [total_lines |-> total_lines, commits |-> commits, authors |-> authors,
     pages |-> pages, blameRuns |-> blameRuns, logRuns |-> logRuns,
     add_co_authors |-> config.add_co_authors, err |-> NoError]

\* The Repo objects after a call; an exception leaves what was changed
\* before it was raised.
Store(h) ==
    /\ total_lines' = h.total_lines
    /\ commits' = h.commits
    /\ authors' = h.authors
    /\ pages' = h.pages
    /\ blameRuns' = h.blameRuns
    /\ logRuns' = h.logRuns

\* What the host sees of the last call: the exception that came out of it and
\* the method that raised it, or NoError when the call returned.
Returned(op, err) ==
    IF err = NoError THEN [op |-> NoneVal, err |-> NoError]
    ELSE [op |-> op, err |-> err]

\* A call of method op that left the Repo objects as h.
Complete(h, op) ==
    /\ Store(h)
    /\ ret' = Returned(op, h.err)

\* A GitCommand after construction.
GitCommand_init(command, args) ==
    [command |-> command, args |-> args, stdout |-> NoneVal, stderr |-> NoneVal,
     completed |-> FALSE]

\* The Repo is driven by its caller (the tests, or a build that has run
\* on_config in a work tree whose files are all *.md), and the GitCommand of
\* the model has not been run.
\* The directories of the host: the documentation, the root of the work
\* tree and the output.
Dirs == {"docs", "root", "site"}

\* The process outside of raise_ci_warnings: the working directory, whether
\* .git/shallow exists, and how `git rev-list --count HEAD` ends.
CiIdle ==
    [cwd |-> "docs", origin |-> NoneVal, path |-> NoneVal, pc |-> "idle",
     err |-> NoError, shallow |-> FALSE, count |-> "ok"]

RepoInUse ==
    /\ gitRoot = "ok"
    /\ docs = [p \in Paths |-> ".md"]
    /\ plugin = [repo |-> TRUE, fallback |-> FALSE]
    /\ build = "configured"
    /\ gc = GitCommand_init("blame", <<"--porcelain", "p1">>)
    /\ proc = [last |-> NoneVal, ok |-> FALSE]
    /\ ci = CiIdle

\* The Repo after construction and set_config, in a work tree. The logs
\* are read with add_co_authors only, so their outcome varies with it only.
Init ==
    /\ gitBlame \in Worlds
    /\ config \in Configs
    /\ gitLog \in LogWorlds
    /\ ~config.add_co_authors => \A sha \in SHAs : gitLog[sha].ok
    /\ logRuns = [sha \in AllSHAs |-> 0]
    /\ total_lines = 0
    /\ commits = EmptyFn
    /\ authors = <<>>
    /\ pages = EmptyFn
    /\ blameRuns = [p \in Paths |-> 0]
    /\ ret = Returned("Repo", NoError)
    /\ RepoInUse

\* exclude(src_path, globs) of mkdocs_git_authors_plugin/exclude.py: whether
\* the path matches one of the patterns. The patterns of the model are the
\* paths themselves.
exclude(src_path, globs) == src_path \in globs

\* repo.page(path), as called by on_page_markdown and on_page_context for a
\* page that is not excluded, and by the tests.
RepoPage(path) ==
    /\ ~exclude(path, config.exclude)
    /\ Complete(Repo_page(Heap, path), "page")
    /\ UNCHANGED <<gitBlame, gitLog, config, gitRoot, docs, plugin, build, gc, proc, ci>>

\* The markdown files of the docs directory, in the order of the files
\* collection.
Files == <<"p1", "p2">>

\* GitAuthorsPlugin.on_files, the loop from file i: repo.page(path) for
\* every file whose path ends with ".md"; an exception ends the loop.
RECURSIVE on_files_from(_, _)
on_files_from(h, i) ==
    IF i > Len(Files) \/ h.err # NoError THEN h
    ELSE IF docs[Files[i]] = ".md" THEN on_files_from(Repo_page(h, Files[i]), i + 1)
    ELSE on_files_from(h, i + 1)

\* self.repo().page(...) and self.repo().get_authors() of a plugin whose
\* _repo is None: None has no such attribute.
NoRepo(h) == [h EXCEPT !.err = "AttributeError"]

\* GitAuthorsPlugin.on_files that parses the files in fallback mode too.
on_files_without_fallback(h) ==
    IF ~plugin.repo /\ \E i \in 1..Len(Files) : docs[Files[i]] = ".md" THEN NoRepo(h)
    ELSE on_files_from(h, 1)

\* GitAuthorsPlugin.on_files: nothing in fallback mode.
on_files(h) ==
    IF plugin.fallback THEN h
    ELSE IF ~plugin.repo /\ \E i \in 1..Len(Files) : docs[Files[i]] = ".md" THEN NoRepo(h)
    ELSE on_files_from(h, 1)

\* GitAuthorsPlugin.on_files
OnFiles ==
    /\ Complete(on_files(Heap), "on_files")
    /\ UNCHANGED <<gitBlame, gitLog, config, gitRoot, docs, plugin, build, gc, proc, ci>>

\* repo.get_authors()
RepoGetAuthors ==
    LET r == Repo_get_authors(Heap)
    IN  /\ ret' = Returned("get_authors", r.err)
        /\ UNCHANGED <<gitBlame, gitLog, config, total_lines, commits, authors, pages,
                   blameRuns, logRuns, gitRoot, docs, plugin, build, gc, proc, ci>>

\* author.contribution(path) for a registered author; path is None for the
\* contribution to the repository.
AuthorContribution(email, path) ==
    /\ AuthorIndex(Heap, email) # 0
    /\ ~exclude(path, config.exclude)
    /\ Complete(Author_contribution(Heap, email, path).h, "contribution")
    /\ UNCHANGED <<gitBlame, gitLog, config, gitRoot, docs, plugin, build, gc, proc, ci>>

Emails == {"abc@abc.com", "john@abc.com", "John@ABC.com", "not.committed.yet"}

\* page.get_authors() of a stored Page.
PageGetAuthors(path) ==
    /\ path \in DOMAIN pages
    /\ \E acceptsNone \in BOOLEAN :
          Complete(Page_get_authors(Heap, path, acceptsNone), "Page.get_authors")
    /\ UNCHANGED <<gitBlame, gitLog, config, gitRoot, docs, plugin, build, gc, proc, ci>>

\* What the host sees of a call that returned a value.
ReturnedValue(op, r) ==
    IF r.h.err # NoError THEN Returned(op, r.h.err)
    ELSE [op |-> op, err |-> NoError, val |-> r.val]

\* author.contribution(path, str) for a registered author.
AuthorContributionStr(email, path) ==
    /\ AuthorIndex(Heap, email) # 0
    /\ Store(Author_contribution_str(Heap, email, path).h)
    /\ ret' = ReturnedValue("contribution", Author_contribution_str(Heap, email, path))
    /\ UNCHANGED <<gitBlame, gitLog, config, gitRoot, docs, plugin, build, gc, proc, ci>>

Next ==
    \/ \E path \in Paths : RepoPage(path)
    \/ OnFiles
    \/ RepoGetAuthors
    \/ \E email \in Emails, path \in Paths \cup {NoneVal} : AuthorContribution(email, path)

Spec == Init /\ [][Next]_vars

\* The Repo after construction and set_config, in a work tree whose author
\* lists are rendered.
InitDisplay ==
    /\ gitBlame \in DisplayWorlds
    /\ config \in DisplayConfigs
    /\ gitLog = [sha \in AllSHAs |-> [ok |-> sha # ZeroSha]]
    /\ logRuns = [sha \in AllSHAs |-> 0]
    /\ total_lines = 0
    /\ commits = EmptyFn
    /\ authors = <<>>
    /\ pages = EmptyFn
    /\ blameRuns = [p \in Paths |-> 0]
    /\ ret = Returned("Repo", NoError)
    /\ RepoInUse

\* The calls made when the author lists of the pages are rendered.
NextDisplay ==
    \/ \E path \in Paths : RepoPage(path)
    \/ RepoGetAuthors
    \/ \E path \in Paths : PageGetAuthors(path)
    \/ \E email \in Emails, path \in Paths \cup {NoneVal} :
          AuthorContributionStr(email, path)

SpecDisplay == InitDisplay /\ [][NextDisplay]_vars

\* The lines of the files of a work tree with changes that are not
\* committed: a line of text or an empty line that is not committed yet, and
\* a line of text of c1.
UncommittedLines ==
    {[sha |-> ZeroSha, text |-> "x"], [sha |-> ZeroSha, text |-> ""],
     [sha |-> "c1", text |-> "x"]}

\* The work trees with such files: git blame succeeds for both paths.
UncommittedWorlds ==
    [Paths -> {[ok |-> TRUE, lines |-> l] : l \in SeqsUpTo(UncommittedLines, MaxLines)}]

\* The Repo after construction and set_config in such a work tree, with and
\* without count_empty_lines and add_co_authors.
InitUncommitted ==
    /\ gitBlame \in UncommittedWorlds
    /\ config \in {c \in Configs :
                      /\ ~c.show_contribution /\ c.sort_authors_by = "name"
                      /\ ~c.strict
                      /\ c.ignore_authors = {} /\ c.ignore_commits = {}
                      /\ c.exclude = {}}
    /\ gitLog = [sha \in AllSHAs |-> [ok |-> sha # ZeroSha]]
    /\ logRuns = [sha \in AllSHAs |-> 0]
    /\ total_lines = 0
    /\ commits = EmptyFn
    /\ authors = <<>>
    /\ pages = EmptyFn
    /\ blameRuns = [p \in Paths |-> 0]
    /\ ret = Returned("Repo", NoError)
    /\ RepoInUse

\* The pages are parsed one by one or by on_files.
NextUncommitted ==
    \/ \E path \in Paths : RepoPage(path)
    \/ OnFiles

SpecUncommitted == InitUncommitted /\ [][NextUncommitted]_vars

\* The metadata Commit.__init__ needs of a record.
RequiredFields == {"author", "author-mail", "author-time", "author-tz"}

\* The work trees in which the blame of p1, a file of lines of one commit,
\* lacks some of the required metadata lines; p2 is a file of one line whose
\* blame is complete.
LackingWorlds ==
    {[p \in Paths |->
         IF p = "p1" THEN [ok |-> TRUE, lines |-> Run(a, n), lacks |-> missing]
         ELSE [ok |-> TRUE, lines |-> Run(b, 1)]] :
        a \in SHAs, b \in SHAs, n \in 1..MaxRun, missing \in SUBSET RequiredFields}

\* The Repo after construction and set_config in such a work tree.
InitLacking ==
    /\ gitBlame \in LackingWorlds
    /\ config \in {c \in Configs :
                      /\ c.count_empty_lines
                      /\ ~c.show_contribution /\ c.sort_authors_by = "name"
                      /\ c.ignore_authors = {} /\ c.ignore_commits = {}
                      /\ c.exclude = {} /\ ~c.add_co_authors}
    /\ gitLog = [sha \in AllSHAs |-> [ok |-> sha # ZeroSha]]
    /\ logRuns = [sha \in AllSHAs |-> 0]
    /\ total_lines = 0
    /\ commits = EmptyFn
    /\ authors = <<>>
    /\ pages = EmptyFn
    /\ blameRuns = [p \in Paths |-> 0]
    /\ ret = Returned("Repo", NoError)
    /\ RepoInUse

\* How often the host asks for a page whose construction raised.
MaxParses == 2

\* The pages are parsed one by one or by on_files; a page whose construction
\* raised is not stored and is parsed again by the next call.
NextLacking ==
    \/ \E path \in Paths : blameRuns[path] < MaxParses /\ RepoPage(path)
    \/ (\A path \in Paths : blameRuns[path] < MaxParses) /\ OnFiles

SpecLacking == InitLacking /\ [][NextLacking]_vars

\* The work trees in which a page's author list is asked for again after
\* other pages were parsed: p1 has one line of each of two commits, p2 has
\* lines of one commit.
SortedWorlds ==
    {[p \in Paths |-> IF p = "p1" THEN [ok |-> TRUE, lines |-> Run(a, 1) \o Run(b, 1)]
                      ELSE [ok |-> TRUE, lines |-> Run(c, n)]] :
        a \in SHAs, b \in SHAs, c \in SHAs, n \in 1..MaxRun}

InitSorted ==
    /\ gitBlame \in SortedWorlds
    /\ config \in {c \in DisplayConfigs : ~c.show_line_count}
    /\ gitLog = [sha \in AllSHAs |-> [ok |-> sha # ZeroSha]]
    /\ logRuns = [sha \in AllSHAs |-> 0]
    /\ total_lines = 0
    /\ commits = EmptyFn
    /\ authors = <<>>
    /\ pages = EmptyFn
    /\ blameRuns = [p \in Paths |-> 0]
    /\ ret = Returned("Repo", NoError)
    /\ RepoInUse

\* page.get_authors() of a stored Page and the list it returns.
PageGetAuthorsList(path) ==
    /\ path \in DOMAIN pages
    /\ \E acceptsNone \in BOOLEAN :
          LET h == Page_get_authors(Heap, path, acceptsNone)
          IN  /\ Store(h)
              /\ ret' = IF h.err # NoError THEN Returned("Page.get_authors", h.err)
                        ELSE [op |-> "Page.get_authors", err |-> NoError,
                              val |-> h.pages[path].authors, path |-> path]
    /\ UNCHANGED <<gitBlame, gitLog, config, gitRoot, docs, plugin, build, gc, proc, ci>>

NextSorted ==
    \/ \E path \in Paths : RepoPage(path)
    \/ \E path \in Paths : PageGetAuthorsList(path)

SpecSorted == InitSorted /\ [][NextSorted]_vars

\* Author.lines(path) for a path: h1 is the outcome of self.page(path).
Author_lines(h1, email, path) ==
    [h |-> h1,
     val |-> IF h1.err # NoError THEN 0
             ELSE h1.authors[AuthorIndex(h1, email)].pages[path].lines]

\* Author.datetime(path, fmt=str): h1 is the outcome of self.page(path).
Author_datetime(h1, email, path) ==
    [h |-> h1,
     val |-> IF h1.err # NoError THEN NoneVal
             ELSE h1.authors[AuthorIndex(h1, email)].pages[path].datetime_str]

\* The Repo objects after the read accessor q of an Author was called for a
\* path.
Author_query(h, q, email, path) ==
    CASE q = "lines"        -> Author_lines(Author_page(h, email, path), email, path).h
      [] q = "contribution" -> Author_contribution(h, email, path).h
      [] q = "datetime"     -> Author_datetime(Author_page(h, email, path), email, path).h

\* The Repo of a work tree with two files, before any page is parsed, with
\* the default policies.
InitQueries ==
    /\ gitBlame \in Worlds
    /\ config \in {c \in Configs :
                      /\ ~c.show_contribution /\ c.sort_authors_by = "name"
                      /\ c.ignore_authors = {} /\ c.ignore_commits = {}
                      /\ c.exclude = {} /\ ~c.add_co_authors /\ ~c.strict}
    /\ gitLog = [sha \in AllSHAs |-> [ok |-> sha # ZeroSha]]
    /\ logRuns = [sha \in AllSHAs |-> 0]
    /\ total_lines = 0
    /\ commits = EmptyFn
    /\ authors = <<>>
    /\ pages = EmptyFn
    /\ blameRuns = [p \in Paths |-> 0]
    /\ ret = Returned("Repo", NoError)
    /\ RepoInUse

\* author.lines(path), author.contribution(path) or author.datetime(path)
\* of a registered author.
AuthorQuery(q, email, path) ==
    /\ AuthorIndex(Heap, email) # 0
    /\ Store(Author_query(Heap, q, email, path))
    /\ ret' = [op |-> q, err |-> Author_query(Heap, q, email, path).err]
    /\ UNCHANGED <<gitBlame, gitLog, config, gitRoot, docs, plugin, build, gc, proc, ci>>

NextQueries ==
    \/ \E path \in Paths : RepoPage(path)
    \/ \E q \in {"lines", "contribution", "datetime"}, email \in Emails, path \in Paths :
          AuthorQuery(q, email, path)

SpecQueries == InitQueries /\ [][NextQueries]_vars

(***************************************************************************)
(* GitCommand: texts are sequences of characters and of literal pieces     *)
(***************************************************************************)
\* Largest number of characters a git process of the model prints.
MaxOut == 2

OutChars == {"a", "'", "\n"}

\* What a git process leaves: its return code and what it printed.
\* git writes its complaint to stderr when it fails.
Processes ==
    {[returncode |-> rc, stdout |-> out,
      stderr |-> IF rc = 0 THEN <<>> ELSE <<"e", "\n">>] :
        rc \in {0, 128}, out \in SeqsUpTo(OutChars, MaxOut)}

\* The invocations of the model.
ArgLists == {<<"--porcelain", "p1">>, <<"-1", "c1">>}

\* str.strip(chars), from the left and from the right.
RECURSIVE LStrip(_, _)
LStrip(str, chars) ==
    IF str # <<>> /\ Head(str) \in chars THEN LStrip(Tail(str), chars) ELSE str

RECURSIVE RStrip(_, _)
RStrip(str, chars) ==
    IF str # <<>> /\ str[Len(str)] \in chars
    THEN RStrip(SubSeq(str, 1, Len(str) - 1), chars)
    ELSE str

Strip(str, chars) == RStrip(LStrip(str, chars), chars)

\* str.split(sep) for a separator of one character: cur is the piece being
\* read from position i. The result has one piece more than separators.
RECURSIVE SplitFrom(_, _, _, _)
SplitFrom(str, sep, i, cur) ==
    IF i > Len(str) THEN <<cur>>
    ELSE IF str[i] = sep THEN <<cur>> \o SplitFrom(str, sep, i + 1, <<>>)
    ELSE SplitFrom(str, sep, i + 1, Append(cur, str[i]))

Split(str, sep) == SplitFrom(str, sep, 1, <<>>)

\* sep.join(parts)
RECURSIVE Join(_, _)
Join(parts, sep) ==
    IF parts = <<>> THEN <<>>
    ELSE IF Len(parts) = 1 THEN parts[1]
    ELSE parts[1] \o <<sep>> \o Join(Tail(parts), sep)

\* GitCommand.run, args = ['git', command] + self._args
Invocation(c) == <<"git", c.command>> \o c.args

\* GitCommand.run, the message of the GitCommandError
GitCommand_message(c, p) ==
    Join(<< <<"GitCommand error:">>,
            <<"Command \"">>
               \o Join([i \in 1..Len(Invocation(c)) |-> <<Invocation(c)[i]>>], " ")
               \o <<"\" failed">>,
            <<"Return code: ", ToString(p.returncode)>>,
            <<"Output:">>,
            p.stdout,
            <<"Error messages:">>,
            p.stderr >>, "\n")

\* GitCommand.run that stores the output before it looks at the return code.
GitCommand_run_stores_first(c, p) ==
    [gc  |-> [c EXCEPT !.stdout = Split(Strip(p.stdout, {"'", "\n"}), "\n"),
                       !.stderr = Split(Strip(p.stderr, {"'", "\n"}), "\n"),
                       !.completed = TRUE],
     ret |-> IF p.returncode # 0
             THEN [op |-> "run", err |-> "GitCommandError",
                   val |-> GitCommand_message(c, p)]
             ELSE [op |-> "run", err |-> NoError, val |-> p.returncode]]

\* GitCommand.run for the process p that subprocess.run returned: the
\* GitCommand after the call and what the caller gets.
GitCommand_run_with(c, p) ==
    IF p.returncode # 0
    THEN [gc  |-> c,
          ret |-> [op |-> "run", err |-> "GitCommandError",
                   val |-> GitCommand_message(c, p)]]
    ELSE [gc  |-> [c EXCEPT !.stdout = Split(Strip(p.stdout, {"'", "\n"}), "\n"),
                            !.stderr = Split(Strip(p.stderr, {"'", "\n"}), "\n"),
                            !.completed = TRUE],
          ret |-> [op |-> "run", err |-> NoError, val |-> p.returncode]]

\* GitCommand.stdout and GitCommand.stderr
GitCommand_read(c, stream) ==
    IF ~c.completed
    THEN [op |-> stream, err |-> "GitCommandError",
          val |-> <<"Trying to read from uncompleted GitCommand">>]
    ELSE [op |-> stream, err |-> NoError, val |-> c[stream]]

\* A GitCommand after construction; the Repo is not in use.
InitCommand ==
    /\ gitBlame = [p \in Paths |-> [ok |-> FALSE, lines |-> <<>>]]
    /\ config \in {c \in Configs : c = CHOOSE d \in Configs : TRUE}
    /\ gitLog = [sha \in AllSHAs |-> [ok |-> sha # ZeroSha]]
    /\ logRuns = [sha \in AllSHAs |-> 0]
    /\ total_lines = 0
    /\ commits = EmptyFn
    /\ authors = <<>>
    /\ pages = EmptyFn
    /\ blameRuns = [p \in Paths |-> 0]
    /\ ret = [op |-> "GitCommand", err |-> NoError, val |-> <<>>]
    /\ gitRoot = "ok"
    /\ docs = [p \in Paths |-> ".md"]
    /\ plugin = [repo |-> FALSE, fallback |-> FALSE]
    /\ build = "start"
    /\ \E args \in ArgLists : gc = GitCommand_init("blame", args)
    /\ proc = [last |-> NoneVal, ok |-> FALSE]
    /\ ci = CiIdle

RepoUnchanged ==
    UNCHANGED <<gitBlame, gitLog, config, total_lines, commits, authors, pages,
                blameRuns, logRuns, gitRoot, docs, plugin, build>>

\* gc.run(): git exits with any of the outcomes.
CmdRun ==
    \E p \in Processes :
        /\ gc' = GitCommand_run_with(gc, p).gc
        /\ ret' = GitCommand_run_with(gc, p).ret
        /\ proc' = [last |-> p, ok |-> proc.ok \/ p.returncode = 0]
        /\ UNCHANGED ci
        /\ RepoUnchanged

\* gc.stdout()
CmdStdout ==
    /\ ret' = GitCommand_read(gc, "stdout")
    /\ UNCHANGED <<gc, proc, ci>>
    /\ RepoUnchanged

\* gc.stderr()
CmdStderr ==
    /\ ret' = GitCommand_read(gc, "stderr")
    /\ UNCHANGED <<gc, proc, ci>>
    /\ RepoUnchanged

\* gc.set_args(args)
CmdSetArgs ==
    \E args \in ArgLists :
        /\ gc' = [gc EXCEPT !.args = args]
        /\ ret' = [op |-> "set_args", err |-> NoError, val |-> NoneVal]
        /\ UNCHANGED <<proc, ci>>
        /\ RepoUnchanged

NextCommand == CmdRun \/ CmdStdout \/ CmdStderr \/ CmdSetArgs

SpecCommand == InitCommand /\ [][NextCommand]_vars

(***************************************************************************)
(* GitAuthorsPlugin: the event handlers of one build                       *)
(***************************************************************************)
\* A text is a sequence of pieces; a tag is one piece. The pieces that
\* the three patterns match (re.IGNORECASE, \s* around the name):
AuthorsSummaryTags == {"{{ git_authors_summary }}"}

PageAuthorsTags == {"{{ git_page_authors }}", "{{GIT_PAGE_AUTHORS}}"}

SiteAuthorsTags == {"{{ git_site_authors }}", "{{git_site_authors}}"}

\* pattern.search(text)
Search(tags, text) == \E i \in 1..Len(text) : text[i] \in tags

\* pattern.sub(repl, text): every match replaced by the pieces of repl.
RECURSIVE Sub(_, _, _)
Sub(tags, repl, text) ==
    IF text = <<>> THEN <<>>
    ELSE (IF Head(text) \in tags THEN repl ELSE <<Head(text)>>)
           \o Sub(tags, repl, Tail(text))

\* f" ({author.contribution(path, str)})" when the contribution is shown,
\* else the empty string: the Repo objects after and the pieces.
contrib(r) ==
    [h |-> r.h, val |-> IF r.h.err = NoError THEN <<" (", r.val, ")">> ELSE <<>>]

contrib_if(h, email, path, shown) ==
    IF shown THEN contrib(Author_contribution_str(h, email, path))
    ELSE [h |-> h, val |-> <<>>]

\* The text so far with its closing pieces, when nothing was raised.
Closed(r, pieces) ==
    [h |-> r.h, val |-> IF r.h.err = NoError THEN r.val \o pieces ELSE <<>>]

\* util.page_authors_summary, the loop from author i of the list; acc is
\* the text so far. show_email_address is not among the plugin's options.
RECURSIVE page_authors_summary_from(_, _, _, _, _)
RECURSIVE page_authors_summary_add(_, _, _, _, _)
page_authors_summary_from(h, path, list, i, acc) ==
    IF h.err # NoError \/ i > Len(list) THEN [h |-> h, val |-> acc]
    ELSE page_authors_summary_add(
             contrib_if(h, list[i], path, config.show_contribution /\ Len(list) > 1),
             path, list, i, acc)

page_authors_summary_add(r, path, list, i, acc) ==
    page_authors_summary_from(r.h, path, list, i + 1,
        acc \o (IF i > 1 THEN <<", ">> ELSE <<>>)
            \o <<r.h.authors[AuthorIndex(r.h, list[i])].name>> \o r.val)

\* util.page_authors_summary after authors = page.get_authors() left h1.
page_authors_summary_of(h1, path) ==
    IF h1.err # NoError THEN [h |-> h1, val |-> <<>>]
    ELSE Closed(page_authors_summary_from(h1, path, h1.pages[path].authors, 1,
                    <<"<span class='git-page-authors git-authors'>">>),
                <<"</span>">>)

\* util.page_authors_summary(page, config) for the Page that repo.page(path)
\* returned, leaving h1.
page_authors_summary(h1, path, acceptsNone) ==
    IF h1.err # NoError THEN [h |-> h1, val |-> <<>>]
    ELSE page_authors_summary_of(Page_get_authors(h1, path, acceptsNone), path)

\* util.site_authors_summary, the loop from author i of the list.
RECURSIVE site_authors_summary_from(_, _, _, _)
RECURSIVE site_authors_summary_add(_, _, _, _)
site_authors_summary_from(h, list, i, acc) ==
    IF h.err # NoError \/ i > Len(list) THEN [h |-> h, val |-> acc]
    ELSE site_authors_summary_add(
             contrib_if(h, list[i], NoneVal, config.show_contribution), list, i, acc)

site_authors_summary_add(r, list, i, acc) ==
    site_authors_summary_from(r.h, list, i + 1,
        acc \o <<"<li>", r.h.authors[AuthorIndex(r.h, list[i])].name>>
            \o (IF config.show_line_count
                THEN <<": ", ToString(Author_lines_all(r.h, list[i])), " lines">>
                ELSE <<>>)
            \o r.val \o <<"</li>">>)

\* util.site_authors_summary(self.repo().get_authors(), config); listed is
\* the outcome of get_authors.
site_authors_summary(h, listed) ==
    IF listed.err # NoError THEN [h |-> [h EXCEPT !.err = listed.err], val |-> <<>>]
    ELSE Closed(site_authors_summary_from(h, listed.val, 1,
                    <<"<span class='git-authors'><ul>">>),
                <<"</span></ul>">>)

\* util.page_authors, the dictionary of one author: r1 and r2 are the
\* outcomes of contribution(path, str) and contribution(None, str).
page_authors_dict(r1, r2, email, path) ==
    IF r2.h.err # NoError THEN [h |-> r2.h, val |-> NoneVal]
    ELSE [h   |-> r2.h,
          val |-> [name  |-> r2.h.authors[AuthorIndex(r2.h, email)].name,
                   email |-> email,
                   last_datetime |->
                       r2.h.authors[AuthorIndex(r2.h, email)].pages[path].datetime_str,
                   lines |-> r2.h.authors[AuthorIndex(r2.h, email)].pages[path].lines,
                   lines_all_pages |-> Author_lines_all(r2.h, email),
                   contribution |-> r1.val,
                   contribution_all_pages |-> r2.val]]

page_authors_item(r1, email, path) ==
    IF r1.h.err # NoError THEN [h |-> r1.h, val |-> NoneVal]
    ELSE page_authors_dict(r1, Author_contribution_str(r1.h, email, NoneVal), email, path)

\* util.page_authors(authors, path), the list from author i.
RECURSIVE page_authors_from(_, _, _, _, _)
RECURSIVE page_authors_add(_, _, _, _, _)
page_authors_from(h, list, path, i, acc) ==
    IF h.err # NoError \/ i > Len(list) THEN [h |-> h, val |-> acc]
    ELSE page_authors_add(
             page_authors_item(Author_contribution_str(h, list[i], path), list[i], path),
             list, path, i, acc)

page_authors_add(r, list, path, i, acc) ==
    page_authors_from(r.h, list, path, i + 1, Append(acc, r.val))

page_authors(h, list, path) == page_authors_from(h, list, path, 1, <<>>)

\* GitAuthorsPlugin.on_page_markdown, the two substitutions of the summary.
markdown_with(r, markdown) ==
    [h   |-> r.h,
     val |-> IF r.h.err # NoError THEN markdown
             ELSE Sub(PageAuthorsTags, r.val, Sub(AuthorsSummaryTags, r.val, markdown))]

\* GitAuthorsPlugin.on_page_markdown(markdown, page): the Repo objects after
\* the call and the text returned.
on_page_markdown(h, path, markdown, acceptsNone) ==
    IF exclude(path, config.exclude) THEN [h |-> h, val |-> markdown]
    ELSE IF ~Search(AuthorsSummaryTags, markdown) /\ ~Search(PageAuthorsTags, markdown)
    THEN [h |-> h, val |-> markdown]
    ELSE IF plugin.fallback
    THEN [h |-> h,
          val |-> Sub(PageAuthorsTags, <<>>, Sub(AuthorsSummaryTags, <<>>, markdown))]
    ELSE IF ~plugin.repo THEN [h |-> NoRepo(h), val |-> markdown]
    ELSE markdown_with(page_authors_summary(Repo_page(h, path), path, acceptsNone),
                       markdown)

\* GitAuthorsPlugin.on_page_content, the substitution of the summary.
html_with(r, html) ==
    [h   |-> r.h,
     val |-> IF r.h.err # NoError THEN html ELSE Sub(SiteAuthorsTags, r.val, html)]

\* GitAuthorsPlugin.on_page_content(html, page)
on_page_content(h, path, html) ==
    IF exclude(path, config.exclude) THEN [h |-> h, val |-> html]
    ELSE IF ~Search(SiteAuthorsTags, html) THEN [h |-> h, val |-> html]
    ELSE IF plugin.fallback THEN [h |-> h, val |-> Sub(SiteAuthorsTags, <<>>, html)]
    ELSE IF ~plugin.repo THEN [h |-> NoRepo(h), val |-> html]
    ELSE html_with(site_authors_summary(h, Repo_get_authors(h)), html)

\* context[key] = value for the keys the handler sets; a context is the
\* sequence of its items.
Item(key, value) == [key |-> key, val |-> value]

\* GitAuthorsPlugin.on_page_context, the assignments: pas and sas are the two
\* summaries, pa and sa the two lists of util.page_authors.
context_with(context, pas, sas, pa, sa) ==
    [h   |-> sa.h,
     val |-> IF sa.h.err # NoError THEN context
             ELSE context \o
                  <<Item("git_info", [page_authors |-> pa.val, site_authors |-> sa.val]),
                    Item("git_page_authors", pas.val),
                    Item("git_site_authors", sas.val),
                    Item("git_authors", pa.val),
                    Item("git_authors_summary", pas.val)>>]

\* The calls of on_page_context in their order, each on the Repo objects
\* the one before left.
context_site_list(context, pas, sas, pa, path) ==
    IF pa.h.err # NoError THEN [h |-> pa.h, val |-> context]
    ELSE IF Repo_get_authors(pa.h).err # NoError
    THEN [h |-> [pa.h EXCEPT !.err = Repo_get_authors(pa.h).err], val |-> context]
    ELSE context_with(context, pas, sas, pa,
                      page_authors(pa.h, Repo_get_authors(pa.h).val, path))

context_page_list(context, pas, sas, path) ==
    IF sas.h.err # NoError THEN [h |-> sas.h, val |-> context]
    ELSE context_site_list(context, pas, sas,
                           page_authors(sas.h, sas.h.pages[path].authors, path), path)

context_site_summary(context, pas, path) ==
    IF pas.h.err # NoError THEN [h |-> pas.h, val |-> context]
    ELSE context_page_list(context, pas,
                           site_authors_summary(pas.h, Repo_get_authors(pas.h)), path)

\* GitAuthorsPlugin.on_page_context that does not look at exclude.
on_page_context_of_any_page(h, path, context, acceptsNone) ==
    IF plugin.fallback THEN [h |-> h, val |-> context]
    ELSE IF ~plugin.repo THEN [h |-> NoRepo(h), val |-> context]
    ELSE context_site_summary(context,
             page_authors_summary(Repo_page(h, path), path, acceptsNone), path)

\* GitAuthorsPlugin.on_page_context(context, page)
on_page_context(h, path, context, acceptsNone) ==
    IF plugin.fallback THEN [h |-> h, val |-> context]
    ELSE IF exclude(path, config.exclude) THEN [h |-> h, val |-> context]
    ELSE IF ~plugin.repo THEN [h |-> NoRepo(h), val |-> context]
    ELSE context_site_summary(context,
             page_authors_summary(Repo_page(h, path), path, acceptsNone), path)

\* The work trees of a build: two committed files of one line each, or, where
\* there is no repository, files without history.
PluginWorlds ==
    {[p \in Paths |-> [ok |-> TRUE, lines |-> Run(IF p = "p1" THEN a ELSE b, 1)]] :
        a \in {"c1", "c3"}, b \in {"c1", "c3"}}

NoHistory == [p \in Paths |-> [ok |-> FALSE, lines |-> <<>>]]

\* The plugin's options of a build (config_scheme): sort_reverse is not among
\* them.
PluginConfigs ==
    [count_empty_lines : {TRUE},
     show_contribution : BOOLEAN,
     show_line_count   : {FALSE},
     sort_authors_by   : {"name"},
     sort_reverse      : {"None"},
     strict            : {FALSE},
     ignore_authors    : {{}},
     ignore_commits    : {{}},
     exclude           : {{}, {"p2"}},
     add_co_authors    : {FALSE},
     fallback_to_empty : BOOLEAN]

\* Where the build runs: in a work tree, outside of any repository (git
\* rev-parse --show-toplevel exits non-zero), or in a shallow clone whose
\* commits cannot be counted (git rev-list --count HEAD exits non-zero).
GitRoots == {"ok", "no repository", "no commit count"}

\* The suffixes of the documentation pages of a build.
Suffixes == {".md", ".markdown"}

\* The markdown and the HTML of the pages, and the template context.
MarkdownTexts ==
    {<<"# Title">>,
     <<"{{ git_page_authors }}">>,
     <<"{{ git_authors_summary }}", "text", "{{GIT_PAGE_AUTHORS}}">>,
     <<"{{ git_site_authors }}">>}

HtmlTexts ==
    {<<"<h1>Title</h1>">>,
     <<"<p>", "{{ git_site_authors }}", "</p>", "{{git_site_authors}}">>}

Context(path) == <<Item("page", path)>>

\* GitAuthorsPlugin() before on_config.
InitPlugin ==
    /\ gitRoot \in GitRoots
    /\ gitBlame \in PluginWorlds \cup {NoHistory}
    /\ gitBlame = NoHistory <=> gitRoot # "ok"
    /\ config \in PluginConfigs
    /\ docs \in {d \in [Paths -> Suffixes] : d["p1"] = ".md"}
    /\ gitLog = [sha \in AllSHAs |-> [ok |-> sha # ZeroSha]]
    /\ logRuns = [sha \in AllSHAs |-> 0]
    /\ total_lines = 0
    /\ commits = EmptyFn
    /\ authors = <<>>
    /\ pages = EmptyFn
    /\ blameRuns = [p \in Paths |-> 0]
    /\ plugin = [repo |-> FALSE, fallback |-> FALSE]
    /\ build = "start"
    /\ ret = [op |-> "GitAuthorsPlugin", err |-> NoError, val |-> <<>>,
              path |-> NoneVal, input |-> <<>>]
    /\ gc = GitCommand_init("rev-parse", <<"--show-toplevel">>)
    /\ proc = [last |-> NoneVal, ok |-> FALSE]
    /\ ci = CiIdle

\* What an event handler returned or raised, and what it was called with.
Handled(op, r, path, input) ==
    [op |-> op, err |-> r.h.err, val |-> r.val, path |-> path, input |-> input]

\* The build goes on after a handler that returned, and ends with one that
\* raised.
After(r, phase) == IF r.h.err # NoError THEN "aborted" ELSE phase

\* GitAuthorsPlugin.on_config: Repo() raises where there is no repository,
\* raise_ci_warnings where the commits cannot be counted.
OnConfig ==
    /\ build = "start"
    /\ plugin' = [repo     |-> gitRoot # "no repository",
                  fallback |-> gitRoot # "ok" /\ config.fallback_to_empty]
    /\ build' = IF gitRoot # "ok" /\ ~config.fallback_to_empty THEN "aborted"
                ELSE "configured"
    /\ ret' = [op |-> "on_config",
               err |-> IF gitRoot # "ok" /\ ~config.fallback_to_empty
                       THEN "GitCommandError" ELSE NoError,
               val |-> <<>>, path |-> NoneVal, input |-> <<>>]
    /\ UNCHANGED <<gitBlame, gitLog, config, total_lines, commits, authors, pages,
                   blameRuns, logRuns, gitRoot, docs, gc, proc, ci>>

\* GitAuthorsPlugin.on_files, the event after on_config.
OnFilesEvent ==
    /\ build = "configured"
    /\ Store(on_files(Heap))
    /\ ret' = Handled("on_files", [h |-> on_files(Heap), val |-> <<>>], NoneVal, <<>>)
    /\ build' = After([h |-> on_files(Heap)], "pages")
    /\ UNCHANGED <<gitBlame, gitLog, config, gitRoot, docs, plugin, gc, proc, ci>>

\* A page event of a documentation page: r is what the handler left and
\* returned.
PageEvent(op, r, path, input) ==
    /\ build = "pages"
    /\ Store(r.h)
    /\ ret' = Handled(op, r, path, input)
    /\ build' = After(r, "pages")
    /\ UNCHANGED <<gitBlame, gitLog, config, gitRoot, docs, plugin, gc, proc, ci>>

OnPageMarkdown ==
    \E path \in Paths, markdown \in MarkdownTexts, acceptsNone \in BOOLEAN :
        PageEvent("on_page_markdown",
                  on_page_markdown(Heap, path, markdown, acceptsNone), path, markdown)

OnPageContent ==
    \E path \in Paths, html \in HtmlTexts :
        PageEvent("on_page_content", on_page_content(Heap, path, html), path, html)

OnPageContext ==
    \E path \in Paths, acceptsNone \in BOOLEAN :
        PageEvent("on_page_context",
                  on_page_context(Heap, path, Context(path), acceptsNone),
                  path, Context(path))

NextPlugin ==
    OnConfig \/ OnFilesEvent \/ OnPageMarkdown \/ OnPageContent \/ OnPageContext

SpecPlugin == InitPlugin /\ [][NextPlugin]_vars

(***************************************************************************)
(* ci.py: the working directory during raise_ci_warnings                   *)
(***************************************************************************)
\* working_directory(path) up to the yield: origin = Path().absolute() and
\* os.chdir(path), which raises for a path that is no directory.
working_directory_enter(w, path) ==
    IF path \in Dirs
    THEN [w EXCEPT !.origin = w.cwd, !.path = path, !.cwd = path,
                   !.err = NoError, !.pc = "block"]
    ELSE [w EXCEPT !.origin = w.cwd, !.path = path,
                   !.err = "FileNotFoundError", !.pc = "finally"]

\* raise_ci_warnings, the block of the with statement: it returns when the
\* clone is not shallow, and counts the commits otherwise; commit_count
\* raises GitCommandError when git exits non-zero and ValueError when the
\* output is no number.
raise_ci_warnings_block(w) ==
    IF w.shallow /\ w.count # "ok"
    THEN [w EXCEPT !.err = w.count, !.pc = "finally"]
    ELSE [w EXCEPT !.pc = "finally"]

\* The generator leaving the finally clause only when the block returned.
working_directory_exit_on_return(w) ==
    [w EXCEPT !.cwd = IF w.err = NoError THEN w.origin ELSE w.cwd, !.pc = "done"]

\* working_directory, the finally clause: os.chdir(origin).
working_directory_exit(w) == [w EXCEPT !.cwd = w.origin, !.pc = "done"]

\* The process before raise_ci_warnings is called: in any directory, in a
\* clone that is shallow or not, with a commit count that can be read or not.
InitCi ==
    /\ gitBlame = NoHistory
    /\ config \in {c \in Configs : c = CHOOSE d \in Configs : TRUE}
    /\ gitLog = [sha \in AllSHAs |-> [ok |-> sha # ZeroSha]]
    /\ logRuns = [sha \in AllSHAs |-> 0]
    /\ total_lines = 0
    /\ commits = EmptyFn
    /\ authors = <<>>
    /\ pages = EmptyFn
    /\ blameRuns = [p \in Paths |-> 0]
    /\ ret = Returned("Repo", NoError)
    /\ gitRoot = "ok"
    /\ docs = [p \in Paths |-> ".md"]
    /\ plugin = [repo |-> TRUE, fallback |-> FALSE]
    /\ build = "start"
    /\ gc = GitCommand_init("rev-list", <<"--count", "HEAD">>)
    /\ proc = [last |-> NoneVal, ok |-> FALSE]
    /\ \E d \in Dirs, s \in BOOLEAN, c \in {"ok", "GitCommandError", "ValueError"} :
          ci = [CiIdle EXCEPT !.cwd = d, !.shallow = s, !.count = c]

\* raise_ci_warnings(path) is called and enters the with statement.
CiCall(path) ==
    /\ ci.pc \in {"idle", "done"}
    /\ ci' = working_directory_enter(ci, path)
    /\ RepoUnchanged /\ UNCHANGED <<ret, gc, proc>>

\* The block of the with statement runs.
CiBlock ==
    /\ ci.pc = "block"
    /\ ci' = raise_ci_warnings_block(ci)
    /\ RepoUnchanged /\ UNCHANGED <<ret, gc, proc>>

\* The with statement is left, by return or by exception.
CiExit ==
    /\ ci.pc = "finally"
    /\ ci' = working_directory_exit(ci)
    /\ RepoUnchanged /\ UNCHANGED <<ret, gc, proc>>

NextCi ==
    \/ \E path \in Dirs \cup {"missing"} : CiCall(path)
    \/ CiBlock
    \/ CiExit

SpecCi == InitCi /\ [][NextCi]_vars

\* The pages of a build are constructed one by one, in any order.
NextPages == \E path \in Paths : RepoPage(path)

SpecPages == Init /\ [][NextPages]_vars

(***************************************************************************)
(* What the properties below read                                          *)
(***************************************************************************)
\* The registry key of the author of a commit of the git history.
MailOf(sha) == Lower[StripAngleBrackets[CommitMeta[sha].mail]]

IsRegistered(email) == AuthorIndex(Heap, email) # 0

\* The line count an Author holds for a path, read without calling the
\* Author: 0 when the email is not registered or has no entry for the path.
LinesOn(email, path) ==
    IF ~IsRegistered(email) THEN 0
    ELSE LET a == authors[AuthorIndex(Heap, email)]
         IN  IF path \in DOMAIN a.pages THEN a.pages[path].lines ELSE 0

LinesAll(email) ==
    SumOver([p \in Paths |-> LinesOn(email, p)], Paths)

\* A line the empty-line policy counts.
IsCountable(line) == line.text # "" \/ config.count_empty_lines

\* A line the ignore-commits or the ignore-authors policy leaves out.
IgnoredByCommit(line) == line.sha \in config.ignore_commits

IgnoredByAuthor(line) == MailOf(line.sha) \in config.ignore_authors

FileOf(path) == gitBlame[path].lines

\* Number of lines of the file at path that satisfy Keep.
NumLines(path, Keep(_)) ==
    Cardinality({i \in 1..Len(FileOf(path)) : Keep(FileOf(path)[i])})

\* The parse of the file at path reads no log that cannot be retrieved.
LogsRetrievable(path) ==
    config.add_co_authors =>
        \A i \in 1..Len(FileOf(path)) : gitLog[FileOf(path)[i].sha].ok

\* A commit of the file at path carries the email.
IsBlameEmail(path, email) ==
    \E i \in 1..Len(FileOf(path)) : MailOf(FileOf(path)[i].sha) = email

\* A path whose blame has been run by this step and was not run before.
BlamedInStep(path) == blameRuns'[path] = blameRuns[path] + 1

(***************************************************************************)
(* C1                                                                      *)
(***************************************************************************)
\* C1: for every parsed page, the line counts the authors hold for the page
\* add up to the page's total_lines.
C1_AuthorLinesSumToPageTotal ==
    \A p \in DOMAIN pages :
        SumOver([e \in Emails |-> LinesOn(e, p)], Emails) = pages[p].total_lines

(***************************************************************************)
(* C2                                                                      *)
(***************************************************************************)
\* C2: a page's total_lines is the number of lines of its file that are
\* countable and left out neither by ignore_commits nor by ignore_authors
\* (for a file whose parse read every log it asked for).
C2_TotalIsCountableNotIgnored ==
    \A p \in DOMAIN pages :
        LET Keep(line) == IsCountable(line) /\ ~IgnoredByCommit(line)
                            /\ ~IgnoredByAuthor(line)
        IN  LogsRetrievable(p) => pages[p].total_lines = NumLines(p, Keep)

(***************************************************************************)
(* C3                                                                      *)
(***************************************************************************)
\* C3: blame runs at most once per path, and however the path was queried
\* the lines of a cached file are in the repository total once and in the
\* line count of the author of each line once (when every log the parses
\* asked for could be read).
C3_FileCountedExactlyOnce ==
    /\ \A p \in Paths : blameRuns[p] <= 1
    /\ (\A p \in Paths : LogsRetrievable(p)) =>
          /\ total_lines = SumOver([p \in Paths |->
                              IF p \in DOMAIN pages THEN NumLines(p, IsCountable)
                              ELSE 0], Paths)
          /\ \A p \in DOMAIN pages : \A e \in Emails :
                LET ByAuthor(line) == IsCountable(line) /\ MailOf(line.sha) = e
                IN  LinesOn(e, p) = NumLines(p, ByAuthor)

(***************************************************************************)
(* C4                                                                      *)
(***************************************************************************)
\* C4: no contribution query and no sort of the author list by contribution
\* raises ZeroDivisionError, also when authors are registered and no line
\* was counted.
C4_NoDivisionFault ==
    /\ ret.err # "ZeroDivisionError"
    /\ Repo_get_authors(Heap).err = NoError

(***************************************************************************)
(* C5                                                                      *)
(***************************************************************************)
\* The display name of the first line of the file at path whose commit
\* carries the email.
FirstNameIn(path, email) ==
    LET f == FileOf(path)
        i == CHOOSE k \in 1..Len(f) :
                 /\ MailOf(f[k].sha) = email
                 /\ \A j \in 1..(k - 1) : MailOf(f[j].sha) # email
    IN  CommitMeta[f[i].sha].author

\* C5: the registry holds one Author per email and every Commit refers to
\* the Author of its email; an Author created for the email of a commit of
\* the file being parsed has the name of the first commit seen with the
\* email, in the first such file a step parses (the step reading every
\* log it asks for), and no Author is ever renamed; and the lines an Author holds for a
\* page whose parse read every log it asked for are the countable lines of
\* all commits with its email, whatever their display names.
C5_OneAuthorPerEmail ==
    /\ [](/\ \A i, j \in 1..Len(authors) :
                authors[i].email = authors[j].email => i = j
          /\ \A sha \in DOMAIN commits :
                commits[sha].author = MailOf(sha) /\ IsRegistered(MailOf(sha))
          /\ \A p \in DOMAIN pages : \A e \in Emails :
                LET ByEmail(line) == IsCountable(line) /\ MailOf(line.sha) = e
                IN  (LinesOn(e, p) > 0 /\ LogsRetrievable(p))
                        => LinesOn(e, p) = NumLines(p, ByEmail))
    /\ [][/\ Len(authors') >= Len(authors)
          /\ \A i \in 1..Len(authors) :
                /\ authors'[i].email = authors[i].email
                /\ authors'[i].name = authors[i].name
          /\ \A i \in (Len(authors) + 1)..Len(authors') : \A p \in Paths :
                (/\ BlamedInStep(p)
                 /\ IsBlameEmail(p, authors'[i].email)
                 /\ \A q \in Paths : BlamedInStep(q) => LogsRetrievable(q)
                 /\ \A q \in Paths :
                       (BlamedInStep(q) /\ IsBlameEmail(q, authors'[i].email))
                          => IndexIn(Files, p) <= IndexIn(Files, q)) =>
                    authors'[i].name = FirstNameIn(p, authors'[i].email)]_vars

\* C5 witness: a file with a line of Tim's commit followed by a line of the
\* commit of Tim2 with the same email has been parsed, and the one Author
\* is named Tim and holds both lines.
C5_Witness ==
    /\ "p1" \in DOMAIN pages
    /\ FileOf("p1") = <<[sha |-> "c1", text |-> "x"], [sha |-> "c2", text |-> "x"]>>
    /\ Len(authors) = 1
    /\ authors[1].name = "Tim"
    /\ authors[1].email = "abc@abc.com"
    /\ LinesOn("abc@abc.com", "p1") = 2

(***************************************************************************)
(* C6                                                                      *)
(***************************************************************************)
\* C6: in non-strict mode a step in which the blame of a path fails raises
\* no GitCommandError and stores the Page with total_lines 0 and no authors;
\* the pages stored before are as they were and, when the step blames no
\* other path, so are the repository total, the registries and every
\* author's line counts; and a path whose blame succeeds is
\* parsed and stored, whatever failed before it, with its countable lines
\* when the parse read every log it asked for.
C6_FailedBlameLeavesEmptyPage ==
    [][\A p \in Paths :
          /\ (BlamedInStep(p) /\ ~gitBlame[p].ok /\ ~config.strict) =>
                /\ ret'.err # "GitCommandError"
                /\ p \in DOMAIN pages'
                /\ pages'[p].total_lines = 0
                /\ pages'[p].authors = <<>>
                /\ \A q \in DOMAIN pages : pages'[q] = pages[q]
                /\ (\A q \in Paths \ {p} : ~BlamedInStep(q)) =>
                      /\ total_lines' = total_lines
                      /\ commits' = commits
                      /\ Len(authors') = Len(authors)
                      /\ \A e \in Emails : \A q \in Paths :
                            LinesOn(e, q)' = LinesOn(e, q)
          /\ (BlamedInStep(p) /\ gitBlame[p].ok /\ ~config.strict) =>
                /\ p \in DOMAIN pages'
                /\ LogsRetrievable(p) =>
                      pages'[p].total_lines = NumLines(p, IsCountable)]_vars

\* C6 witness: non-strict mode, the blame of p2 failed and its Page is
\* stored empty, and p1 has been parsed with a counted line.
C6_Witness ==
    /\ ~config.strict
    /\ ~gitBlame["p2"].ok
    /\ blameRuns["p2"] = 1
    /\ "p2" \in DOMAIN pages
    /\ pages["p2"].total_lines = 0
    /\ "p1" \in DOMAIN pages
    /\ pages["p1"].total_lines > 0
    /\ total_lines = pages["p1"].total_lines

(***************************************************************************)
(* C7                                                                      *)
(***************************************************************************)
\* C7: with strict set, a step in which the blame of a path fails ends with
\* the GitCommandError raised to the caller, and no Page is stored.
C7_StrictBlameFailureRaises ==
    [][\A p \in Paths :
          (BlamedInStep(p) /\ ~gitBlame[p].ok /\ config.strict) =>
              /\ ret'.err = "GitCommandError"
              /\ p \notin DOMAIN pages']_vars

(***************************************************************************)
(* C8                                                                      *)
(***************************************************************************)
\* C8: the author of a line of a parsed file whose email is in
\* ignore_authors is registered and holds 0 lines on every page and in all.
C8_IgnoredAuthorListedWithZeroLines ==
    \A p \in DOMAIN pages : \A i \in 1..Len(FileOf(p)) :
        LET e == MailOf(FileOf(p)[i].sha)
        IN  e \in config.ignore_authors =>
                /\ IsRegistered(e)
                /\ LinesAll(e) = 0
                /\ \A q \in Paths : LinesOn(e, q) = 0

(***************************************************************************)
(* C9                                                                      *)
(***************************************************************************)
\* C9: with no ignore_commits list, the page totals and the repository total
\* count the countable lines whose author is not in ignore_authors, and no
\* others.
C9_IgnoredAuthorLinesInNoTotal ==
    LET Keep(line) == IsCountable(line) /\ ~IgnoredByAuthor(line)
    IN  config.ignore_commits = {} =>
          /\ \A p \in DOMAIN pages : pages[p].total_lines = NumLines(p, Keep)
          /\ total_lines = SumOver([p \in Paths |->
                               IF p \in DOMAIN pages THEN NumLines(p, Keep) ELSE 0],
                               Paths)

(***************************************************************************)
(* C10                                                                     *)
(***************************************************************************)
\* C10: with no ignore_authors list, the page totals and the repository
\* total count the countable lines whose commit is not in ignore_commits,
\* and no author holds more lines on a page than such lines of its commits.
C10_IgnoredCommitLinesLeftOut ==
    LET Keep(line) == IsCountable(line) /\ ~IgnoredByCommit(line)
    IN  config.ignore_authors = {} =>
          /\ \A p \in DOMAIN pages : pages[p].total_lines = NumLines(p, Keep)
          /\ total_lines = SumOver([p \in Paths |->
                               IF p \in DOMAIN pages THEN NumLines(p, Keep) ELSE 0],
                               Paths)
          /\ \A p \in DOMAIN pages : \A e \in Emails :
                LET Mine(line) == Keep(line) /\ MailOf(line.sha) = e
                IN  LinesOn(e, p) <= NumLines(p, Mine)

(***************************************************************************)
(* C11                                                                     *)
(***************************************************************************)
\* C11: git blame is never run for a path matched by an exclude pattern, no
\* Page is stored for it, and so none of its lines is in a total and no
\* warning is logged for it.
C11_ExcludedFileNeverParsed ==
    \A p \in Paths :
        exclude(p, config.exclude) => (blameRuns[p] = 0 /\ p \notin DOMAIN pages)

(***************************************************************************)
(* C12                                                                     *)
(***************************************************************************)
\* The position of an email in a list of emails.
PosIn(list, email) == IndexIn(list, email)

NameOf(email) == authors[AuthorIndex(Heap, email)].name

\* C12: the list Repo.get_authors returns holds every registered author
\* once; with show_contribution and show_line_count off and sort_authors_by
\* "name" it is in ascending order of the names, and with show_contribution
\* or show_line_count on no author comes before an author with a larger
\* share of the repository's lines.
C12_RepoAuthorsOrder ==
    LET r == Repo_get_authors(Heap)
        l == r.val
    IN  r.err = NoError =>
          /\ Len(l) = Len(authors)
          /\ \A i \in 1..Len(authors) : \E k \in 1..Len(l) : l[k] = authors[i].email
          /\ (~config.show_contribution /\ ~config.show_line_count
                 /\ config.sort_authors_by = "name") =>
                \A i, j \in 1..Len(l) :
                    i < j => ~StrLess(NamesAscending, NameOf(l[j]), NameOf(l[i]))
          /\ (config.show_contribution \/ config.show_line_count) =>
                \A i, j \in 1..Len(l) : i < j => LinesAll(l[i]) >= LinesAll(l[j])

\* C12 witness: Tim was registered before John and holds fewer lines; by
\* name the list is John, Tim in one configuration, and by contribution it
\* is John, Tim in another.
C12_Witness ==
    /\ Len(authors) = 2
    /\ authors[1].name = "Tim" /\ authors[2].name = "John"
    /\ LinesAll(authors[1].email) < LinesAll(authors[2].email)
    /\ config.show_line_count \/ config.sort_authors_by = "name"
    /\ Repo_get_authors(Heap).val = <<"john@abc.com", "abc@abc.com">>

(***************************************************************************)
(* C13                                                                     *)
(***************************************************************************)
\* C13: two authors of the sorted author list of a page whose sort keys
\* differ are in the same order in that list and in the list
\* Repo.get_authors returns.
C13_PageOrderIsRepoOrder ==
    /\ \A p \in DOMAIN pages :
          LET pl == pages[p].authors
              r  == Repo_get_authors(Heap)
          IN  (pages[p].sorted /\ r.err = NoError) =>
                \A i, j \in 1..Len(pl) :
                    (i < j /\ Repo_sort_key(Heap, pl[i]).val
                                # Repo_sort_key(Heap, pl[j]).val)
                        => PosIn(r.val, pl[i]) < PosIn(r.val, pl[j])

(***************************************************************************)
(* C14                                                                     *)
(***************************************************************************)
\* The counted lines of the file at path whose commit carries the email.
LinesOf(path, email) ==
    {i \in 1..Len(FileOf(path)) :
        IsCountable(FileOf(path)[i]) /\ MailOf(FileOf(path)[i].sha) = email}

\* The commit of the latest authored instant among those lines.
LatestShaOf(path, email) ==
    CHOOSE sha \in {FileOf(path)[i].sha : i \in LinesOf(path, email)} :
        \A i \in LinesOf(path, email) :
            ParseInt[CommitMeta[FileOf(path)[i].sha].time]
                <= ParseInt[CommitMeta[sha].time]

\* C14: without ignore policies, the datetime an author holds for a parsed
\* page is the formatted authored instant of the latest commit among the
\* counted lines of the author in the file, whatever the order of the lines.
C14_LatestContribution ==
    \A p \in DOMAIN pages : \A k \in 1..Len(authors) :
        (/\ config.ignore_authors = {} /\ config.ignore_commits = {}
         /\ LogsRetrievable(p)
         /\ p \in DOMAIN authors[k].pages
         /\ LinesOf(p, authors[k].email) # {})
        => authors[k].pages[p].datetime_str =
             commit_datetime_string(
                 commit_datetime(CommitMeta[LatestShaOf(p, authors[k].email)].time,
                                 CommitMeta[LatestShaOf(p, authors[k].email)].tz))

(***************************************************************************)
(* C15                                                                     *)
(***************************************************************************)
\* C15: the lines an author holds for a page are between 0 and the total of
\* the page, the lines an author holds over all pages are between 0 and the
\* total of the repository, and a contribution that is returned is a
\* fraction between 0 and 1.
C15_ContributionInUnitInterval ==
    \A k \in 1..Len(authors) :
        LET email == authors[k].email
        IN  /\ \A p \in DOMAIN pages :
                  /\ 0 <= LinesOn(email, p)
                  /\ LinesOn(email, p) <= pages[p].total_lines
            /\ 0 <= LinesAll(email)
            /\ LinesAll(email) <= total_lines
            /\ \A path \in Paths \cup {NoneVal} :
                  LET r == Author_contribution(Heap, email, path)
                  IN  r.h.err = NoError =>
                        /\ r.val.den > 0
                        /\ 0 <= r.val.num
                        /\ r.val.num <= r.val.den

\* An author holds some and not all of the lines of a parsed page and of
\* the repository, and the contribution of the author to the page is 1/2.
C15_Witness ==
    /\ ret.err = NoError
    /\ \E k \in 1..Len(authors) : \E p \in DOMAIN pages :
          /\ 0 < LinesOn(authors[k].email, p)
          /\ LinesOn(authors[k].email, p) < pages[p].total_lines
          /\ LinesAll(authors[k].email) < total_lines
          /\ Author_contribution(Heap, authors[k].email, p).val = Fraction(1, 2)

(***************************************************************************)
(* C16                                                                     *)
(***************************************************************************)
\* The string str is the percentage of lines in total (total > 0), to the
\* nearest hundredth, which is the one below or the one above the
\* quotient, followed by '%'.
IsPercentOf(str, lines, total) ==
    /\ \E hundredths \in {(10000 * lines) \div total,
                            ((10000 * lines) \div total) + 1} :
          /\ 2 * (10000 * lines - hundredths * total) <= total
          /\ 2 * (hundredths * total - 10000 * lines) <= total
          /\ str = FloatStr(hundredths) \o "%"
    /\ 3 * lines = total => str = "33.33%"
    /\ 3 * lines = 2 * total => str = "66.67%"
    /\ lines = total => str = "100.0%"

\* C16: the string form of a contribution that is returned is the fraction
\* times 100 rounded to two decimals followed by '%': "33.33%" for 1 of 3
\* lines, "66.67%" for 2 of 3, "100.0%" for all the lines.
C16_ContributionString ==
    /\ \A k \in 1..Len(authors) :
          /\ \A p \in DOMAIN pages :
                LET r == Author_contribution_str(Heap, authors[k].email, p)
                IN  r.h.err = NoError =>
                      IsPercentOf(r.val, LinesOn(authors[k].email, p),
                                  pages[p].total_lines)
          /\ LET r == Author_contribution_str(Heap, authors[k].email, NoneVal)
              IN  r.h.err = NoError =>
                    IsPercentOf(r.val, LinesAll(authors[k].email), total_lines)
    /\ (ret.op = "contribution" /\ ret.err = NoError) =>
          \E lines \in 0..total_lines : \E total \in 1..total_lines :
              IsPercentOf(ret.val, lines, total)

\* The contribution of an author of 2 of the 3 lines has been returned.
C16_Witness ==
    /\ ret.op = "contribution" /\ ret.err = NoError /\ ret.val = "66.67%"
    /\ total_lines = 3
    /\ \E k \in 1..Len(authors) : LinesAll(authors[k].email) = 2

(***************************************************************************)
(* C19                                                                     *)
(***************************************************************************)
\* C19: every Author of the registry is keyed by an email without angle
\* brackets and in lower case, and no two Authors have emails that differ
\* only in the case of their letters.
C19_AuthorsKeyedByNormalisedEmail ==
    \A k \in 1..Len(authors) :
        /\ Lower[StripAngleBrackets[authors[k].email]] = authors[k].email
        /\ \A l \in 1..Len(authors) :
              Lower[authors[l].email] = Lower[authors[k].email] => l = k

(***************************************************************************)
(* C18                                                                     *)
(***************************************************************************)
\* C18: a call during which the log of a commit is read and cannot be
\* retrieved ends with GitCommandError, with the strict option on or off.
C18_LogFailureAborts ==
    [][\A sha \in SHAs :
          (logRuns'[sha] > logRuns[sha] /\ ~gitLog[sha].ok)
              => ret'.err = "GitCommandError"]_vars

(***************************************************************************)
(* C17                                                                     *)
(***************************************************************************)
\* The lines the Author of the email holds for the path among the objects h.
LinesIn(h, email, path) ==
    IF AuthorIndex(h, email) = 0 THEN 0
    ELSE IF path \in DOMAIN h.authors[AuthorIndex(h, email)].pages
    THEN h.authors[AuthorIndex(h, email)].pages[path].lines
    ELSE 0

\* The Repo objects after repo.page(path) without co-author extraction.
PageParsedWithout(path) ==
    Repo_page([Heap EXCEPT !.add_co_authors = FALSE], path)

\* C17: the call repo.page(path) for a page not parsed before, with
\* co-author extraction on, leaves the repository total, the page total
\* and the lines of every author for the page that the same call leaves
\* with co-author extraction off, and an author holds lines for a parsed
\* page only when a commit of the file carries the email of the author.
C17_CoAuthorsChangeNoCount ==
    [][\A p \in Paths :
          (/\ config.add_co_authors
           /\ p \notin DOMAIN pages
           /\ pages' = Repo_page(Heap, p).pages
           /\ authors' = Repo_page(Heap, p).authors)
          => /\ total_lines' = PageParsedWithout(p).total_lines
             /\ p \in DOMAIN pages' <=> p \in DOMAIN PageParsedWithout(p).pages
             /\ p \in DOMAIN pages' =>
                   /\ pages'[p].total_lines
                         = PageParsedWithout(p).pages[p].total_lines
                   /\ \A email \in Emails :
                         /\ LinesOn(email, p)' = LinesIn(PageParsedWithout(p), email, p)
                         /\ LinesOn(email, p)' > 0 => IsBlameEmail(p, email)]_vars

(***************************************************************************)
(* C20                                                                     *)
(***************************************************************************)
\* C20: a stored Commit stays stored with its author, its datetime and its
\* co-authors whatever the later calls look up, the log of its hash is not
\* read again, the log of a hash with a stored Commit has been read once
\* with co-author extraction and never without, and no lookup of a line
\* that repeats a hash without its metadata raises TypeError.
C20_CommitConstructedOnce ==
    [][/\ \A sha \in DOMAIN commits :
             /\ sha \in DOMAIN commits'
             /\ commits'[sha] = commits[sha]
             /\ logRuns'[sha] = logRuns[sha]
       /\ \A sha \in DOMAIN commits' :
             logRuns'[sha] = IF config.add_co_authors THEN 1 ELSE 0
       /\ ret'.err # "TypeError"]_vars

\* The two pages are parsed, both have a line of c1, and the log of c1 has
\* been read once.
C20_Witness ==
    /\ config.add_co_authors
    /\ "c1" \in DOMAIN commits
    /\ logRuns["c1"] = 1
    /\ \A p \in Paths :
          /\ p \in DOMAIN pages
          /\ blameRuns[p] = 1
          /\ pages[p].total_lines = 1
          /\ \E i \in 1..Len(FileOf(p)) : FileOf(p)[i].sha = "c1"
    /\ total_lines = 2

(***************************************************************************)
(* C24                                                                     *)
(***************************************************************************)
\* C24: the author list of a parsed page, which Page.get_authors returns and
\* the page authors summary renders, has no author whose email is in
\* ignore_authors.
C24_IgnoredAuthorNotOnPage ==
    \A p \in DOMAIN pages : \A e \in config.ignore_authors :
        ~InSeq(pages[p].authors, e)

(***************************************************************************)
(* C25                                                                     *)
(***************************************************************************)
\* The lines of the parsed files of a commit with the email that passes Keep.
HasLineOf(email, Keep(_)) ==
    \E p \in DOMAIN pages : \E i \in 1..Len(FileOf(p)) :
        MailOf(FileOf(p)[i].sha) = email /\ Keep(FileOf(p)[i])

\* C25: with no ignore_authors list, an author holds no more lines for a
\* page than the countable lines of the file of commits of the author that
\* are not in ignore_commits, and an author of lines of the parsed files
\* that are all of ignored commits is not in the list Repo.get_authors
\* returns.
C25_IgnoredCommitGivesNoLines ==
    LET Kept(line) == IsCountable(line) /\ ~IgnoredByCommit(line)
        Each(line) == TRUE
        Left(line) == ~IgnoredByCommit(line)
        r          == Repo_get_authors(Heap)
    IN  config.ignore_authors = {} =>
          \A e \in Emails :
              /\ \A p \in DOMAIN pages :
                    LET Mine(line) == Kept(line) /\ MailOf(line.sha) = e
                    IN  LinesOn(e, p) <= NumLines(p, Mine)
              /\ (HasLineOf(e, Each) /\ ~HasLineOf(e, Left)
                     /\ r.err = NoError)
                    => ~InSeq(r.val, e)

(***************************************************************************)
(* C26                                                                     *)
(***************************************************************************)
Reverse(seq) == [i \in 1..Len(seq) |-> seq[Len(seq) + 1 - i]]

\* The author list of the page at path as Page.get_authors sorts it with
\* the given value of sort_reverse.
PageAuthorsSorted(path, reverse) ==
    Page_sorted_by(Heap, path,
        [i \in 1..Len(pages[path].authors) |->
            Repo_sort_key(Heap, pages[path].authors[i])],
        reverse).pages[path].authors

\* C26: the list a call of Page.get_authors stores with sort_reverse true is
\* the reverse of the list it stores from the same authors with
\* sort_reverse false, and the list sorted again is in the same order.
C26_ReverseIsExactReverse ==
    [][\A p \in DOMAIN pages :
          (/\ config.sort_reverse = "True"
           /\ ~pages[p].sorted
           /\ p \in DOMAIN pages'
           /\ pages'[p].sorted)
          => /\ pages'[p].authors = Reverse(PageAuthorsSorted(p, FALSE))
             /\ pages'[p].authors = PageAuthorsSorted(p, TRUE)]_vars

(***************************************************************************)
(* C29                                                                     *)
(***************************************************************************)
\* C29: the co-authors of a stored Commit do not include its author.
C29_AuthorIsNoCoAuthor ==
    \A sha \in DOMAIN commits :
        \A i \in 1..Len(commits[sha].co_authors) :
            Lower[commits[sha].co_authors[i]] # commits[sha].author

(***************************************************************************)
(* C30                                                                     *)
(***************************************************************************)
IsUncommitted(line) == line.sha = ZeroSha

\* C30: the lines that are not committed yet give one Commit, stored under
\* their hash once a parsed file has such a line, and one author,
\* registered under the email of their metadata block; every countable
\* line of a parsed file is in the page total and in the repository total,
\* and the author holds the countable lines of the page that are not
\* committed yet.
C30_UncommittedLinesCounted ==
    LET Mine(line) == IsCountable(line) /\ IsUncommitted(line)
    IN  /\ Cardinality({k \in 1..Len(authors) :
                            authors[k].email = MailOf(ZeroSha)}) <= 1
        /\ IsRegistered(MailOf(ZeroSha)) <=> ZeroSha \in DOMAIN commits
        /\ \A p \in DOMAIN pages :
              /\ NumLines(p, IsUncommitted) > 0 => ZeroSha \in DOMAIN commits
              /\ pages[p].total_lines = NumLines(p, IsCountable)
              /\ LinesOn(MailOf(ZeroSha), p) = NumLines(p, Mine)
        /\ total_lines = SumOver([p \in Paths |->
                              IF p \in DOMAIN pages THEN NumLines(p, IsCountable)
                              ELSE 0], Paths)

(***************************************************************************)
(* C27                                                                     *)
(***************************************************************************)
\* The Repo objects after construction.
FreshHeap ==
    [Heap EXCEPT !.total_lines = 0, !.commits = EmptyFn, !.authors = <<>>,
                 !.pages = EmptyFn,
                 !.blameRuns = [p \in Paths |-> 0],
                 !.logRuns = [sha \in AllSHAs |-> 0]]

\* repo.page(path) for the paths of the sequence from the i-th on, the
\* excluded ones left out as the page events leave them out.
RECURSIVE PagesInOrder(_, _, _)
PagesInOrder(h, order, i) ==
    IF i > Len(order) THEN h
    ELSE IF exclude(order[i], config.exclude) THEN PagesInOrder(h, order, i + 1)
    ELSE PagesInOrder(Repo_page(h, order[i]), order, i + 1)

\* C27: when every page has been constructed, in whatever order, the
\* repository total, the page totals, the registered emails, the lines of
\* every author for every page and the contributions of every author are
\* those of the construction in the order p1, p2.
C27_PageOrderIrrelevant ==
    (\A p \in Paths : ~exclude(p, config.exclude) => p \in DOMAIN pages) =>
        /\ total_lines = PagesInOrder(FreshHeap, Files, 1).total_lines
        /\ DOMAIN pages = DOMAIN PagesInOrder(FreshHeap, Files, 1).pages
        /\ \A p \in DOMAIN pages :
              pages[p].total_lines
                = PagesInOrder(FreshHeap, Files, 1).pages[p].total_lines
        /\ \A e \in Emails :
              /\ IsRegistered(e) <=> AuthorIndex(PagesInOrder(FreshHeap, Files, 1), e) # 0
              /\ \A p \in Paths :
                    LinesOn(e, p) = LinesIn(PagesInOrder(FreshHeap, Files, 1), e, p)
              /\ IsRegistered(e) =>
                    \A p \in DOMAIN pages \cup {NoneVal} :
                        /\ Author_contribution(Heap, e, p).val
                              = Author_contribution(PagesInOrder(FreshHeap, Files, 1), e, p).val
                        /\ Author_contribution(Heap, e, p).h.err
                              = Author_contribution(PagesInOrder(FreshHeap, Files, 1), e, p).h.err

\* Both pages are constructed, p2 before p1: the author registered first
\* has lines for p2 and none for p1, and another author has lines for p1.
C27_Witness ==
    /\ DOMAIN pages = Paths
    /\ Len(authors) >= 2
    /\ LinesOn(authors[1].email, "p2") > 0
    /\ LinesOn(authors[1].email, "p1") = 0
    /\ \E k \in 2..Len(authors) : LinesOn(authors[k].email, "p1") > 0

\* seq holds the pieces of part, in order and next to each other.
IsInfix(part, seq) ==
    \E i \in 0..(Len(seq) - Len(part)) : SubSeq(seq, i + 1, i + Len(part)) = part

\* C21: a run() whose git process exits with a non-zero return code raises a
\* GitCommandError whose message carries the invocation, the return code, the
\* process's stdout and its stderr, and stores no output in the GitCommand;
\* stdout() and stderr() raise a GitCommandError exactly when no run() of the
\* GitCommand has completed successfully.
C21_FailedRunRaisesAndStoresNothing ==
    [][ /\ (ret'.op = "run" /\ proc'.last.returncode # 0) =>
              /\ gc'.completed = gc.completed
              /\ ret'.err = "GitCommandError"
              /\ IsInfix(<<"git">>, ret'.val)
              /\ IsInfix(<<gc.command>>, ret'.val)
              /\ \A i \in 1..Len(gc.args) : IsInfix(<<gc.args[i]>>, ret'.val)
              /\ IsInfix(<<"Return code: ", ToString(proc'.last.returncode)>>, ret'.val)
              /\ IsInfix(<<"Output:", "\n">> \o proc'.last.stdout, ret'.val)
              /\ IsInfix(<<"Error messages:", "\n">> \o proc'.last.stderr, ret'.val)
              /\ gc' = gc
        /\ (ret'.op \in {"stdout", "stderr"}) =>
              (ret'.err = "GitCommandError" <=> ~proc.ok)
      ]_vars

C21_Witness ==
    /\ ret.op = "run"
    /\ ret.err = "GitCommandError"
    /\ proc.last.returncode = 128
    /\ Len(proc.last.stdout) = MaxOut
    /\ ~gc.completed
    /\ gc.stdout = NoneVal

(***************************************************************************)
(* C22, C23, C28: the event handlers                                       *)
(***************************************************************************)
PageOps == {"on_page_markdown", "on_page_content", "on_page_context"}

\* The build after a failed discovery with fallback_to_empty: it goes on in
\* fallback mode, nothing is raised, no Page, Author or blame exists, the
\* template context comes back as it went in, and the texts of the pages in
\* onPages come back without the tags of their handler.
FallbackBuild(onPages) ==
    /\ plugin.fallback /\ ~plugin.repo
    /\ build # "aborted"
    /\ ret.err = NoError
    /\ pages = EmptyFn /\ authors = <<>> /\ total_lines = 0
    /\ \A p \in Paths : blameRuns[p] = 0
    /\ (ret.op = "on_page_context") => ret.val = ret.input
    /\ (ret.op = "on_page_markdown" /\ ret.path \in onPages) =>
          /\ ~Search(AuthorsSummaryTags \cup PageAuthorsTags, ret.val)
          /\ ret.val = Sub(AuthorsSummaryTags \cup PageAuthorsTags, <<>>, ret.input)
    /\ (ret.op = "on_page_content" /\ ret.path \in onPages) =>
          /\ ~Search(SiteAuthorsTags, ret.val)
          /\ ret.val = Sub(SiteAuthorsTags, <<>>, ret.input)

\* The build after a failed discovery without fallback_to_empty: on_config
\* raised the GitCommandError.
FailedBuild ==
    /\ build = "aborted"
    /\ ret.op = "on_config"
    /\ ret.err = "GitCommandError"
    /\ ~plugin.fallback

C23_ExcludedPageUnchanged ==
    [][(ret'.op \in PageOps /\ ret'.path \in config.exclude) =>
          /\ ret'.err = NoError
          /\ ret'.val = ret'.input
          /\ UNCHANGED <<total_lines, commits, authors, pages, blameRuns, logRuns>>
      ]_vars

C23_Witness ==
    /\ ret.op = "on_page_markdown"
    /\ ret.path \in config.exclude
    /\ ~plugin.fallback
    /\ Search(PageAuthorsTags, ret.input)
    /\ ret.val = ret.input
    /\ ret.path \in DOMAIN pages

\* C28: a page event finds every page of the build parsed, so it changes
\* neither the repository total nor the lines of any author on any page.
C28_PageEventsChangeNoCount ==
    [][(build = "pages" /\ ret'.op \in PageOps /\ ~plugin.fallback) =>
          /\ total_lines' = total_lines
          /\ \A email \in Emails, p \in Paths : LinesOn(email, p)' = LinesOn(email, p)
      ]_vars

(***************************************************************************)
(* C37                                                                     *)
(***************************************************************************)
\* C37: stdout() and stderr() return the output of the most recent run only:
\* whenever one of them returns, the most recent run has succeeded and what
\* is returned is the stripped and split output of that run.
C37_OutputOfMostRecentRun ==
    [][(ret'.op \in {"stdout", "stderr"} /\ ret'.err = NoError) =>
          /\ proc.last.returncode = 0
          /\ ret'.val = Split(Strip(proc.last[ret'.op], {"'", "\n"}), "\n")
      ]_vars

(***************************************************************************)
(* C31                                                                     *)
(***************************************************************************)
\* C31: when the blame of p1 is parsed while its commit is not in the
\* registry and its record lacks a required metadata field, the call raises
\* (the error is not swallowed, no Page is stored), and it adds neither a
\* Commit nor an Author.
C31_LackingRecordFailsLoudly ==
    [][(/\ BlamedInStep("p1")
        /\ gitBlame["p1"].lacks # {}
        /\ gitBlame["p1"].lines[1].sha \notin DOMAIN commits)
       => /\ ret'.err # NoError
          /\ "p1" \notin DOMAIN pages'
          /\ commits' = commits
          /\ authors' = authors
      ]_vars

(***************************************************************************)
(* C32                                                                     *)
(***************************************************************************)
\* C32: the parse of a file (whose logs can be read) raises nothing,
\* resolves the commit of every line, countable or not, counts the countable
\* lines only, and gives every countable line to the author of its commit,
\* also when the first line of the commit in the file is not countable and
\* the countable line follows as a record without metadata.
C32_UncountedLineResolvesCommit ==
    [][\A p \in Paths :
          (BlamedInStep(p) /\ gitBlame[p].ok /\ LogsRetrievable(p)) =>
             /\ ret'.err = NoError
             /\ p \in DOMAIN pages'
             /\ \A i \in 1..Len(FileOf(p)) : FileOf(p)[i].sha \in DOMAIN commits'
             /\ pages'[p].total_lines = NumLines(p, IsCountable)
             /\ \A e \in Emails :
                   LET ByAuthor(line) == IsCountable(line) /\ MailOf(line.sha) = e
                   IN  LinesOn(e, p)' = NumLines(p, ByAuthor)
      ]_vars

C32_Witness ==
    /\ ~config.count_empty_lines
    /\ FileOf("p1") = <<[sha |-> "c1", text |-> ""], [sha |-> "c1", text |-> "x"]>>
    /\ "p1" \in DOMAIN pages
    /\ pages["p1"].total_lines = 1
    /\ LinesOn(MailOf("c1"), "p1") = 1
    /\ "c1" \in DOMAIN commits

(***************************************************************************)
(* C33                                                                     *)
(***************************************************************************)
\* The list a sort of the page's authors would give in the current state.
SortedNow(path) ==
    Page_sorted_by(Heap, path,
        [i \in 1..Len(pages[path].authors) |-> Repo_sort_key(Heap, pages[path].authors[i])],
        config.sort_reverse = "True").pages[path].authors

\* C33: once get_authors() of a page has sorted its list, every step keeps
\* the list as it is, and every later get_authors() of that page returns
\* that same list, whatever pages were parsed in between.
C33_SortedOnce ==
    [][\A p \in DOMAIN pages :
          pages[p].sorted =>
             /\ p \in DOMAIN pages'
             /\ pages'[p].sorted
             /\ pages'[p].authors = pages[p].authors
             /\ (/\ ret'.op = "Page.get_authors"
                 /\ ret'.err = NoError
                 /\ ret'.path = p) => ret'.val = pages[p].authors
      ]_vars

C33_Witness ==
    /\ DOMAIN pages = Paths
    /\ pages["p1"].sorted
    /\ ret.op = "Page.get_authors"
    /\ ret.err = NoError
    /\ ret.path = "p1"
    /\ ret.val = pages["p1"].authors
    /\ Len(ret.val) = 2
    /\ blameRuns["p2"] = 1
    /\ SortedNow("p1") # ret.val

(***************************************************************************)
(* C36                                                                     *)
(***************************************************************************)
\* C36: a step that is a call of author.lines(path), author.contribution(path)
\* or author.datetime(path) leaves the repository total, the total of every
\* page and the line count of every author for every path as they were.
C36_QueriesChangeNoCount ==
    [][ret'.op \in {"lines", "contribution", "datetime"} =>
          /\ total_lines' = total_lines
          /\ \A p \in DOMAIN pages :
                p \in DOMAIN pages' /\ pages'[p].total_lines = pages[p].total_lines
          /\ \A e \in Emails, p \in Paths : LinesOn(e, p)' = LinesOn(e, p)
      ]_vars

(***************************************************************************)
(* C35                                                                     *)
(***************************************************************************)
\* The sum of total_lines over the cached pages.
PagesTotal ==
    SumOver([p \in DOMAIN pages |-> pages[p].total_lines], DOMAIN pages)

\* The sum over the registered authors of the lines of all their entries.
AuthorsTotal ==
    SumOver([k \in 1..Len(authors) |-> Author_lines_all(Heap, authors[k].email)],
            1..Len(authors))

\* C35: in every reachable state the repository total is the sum of the
\* totals of the cached pages and the sum of the authors' project-wide line
\* counts.
C35_TotalIsSumOfPagesAndAuthors ==
    /\ total_lines = PagesTotal
    /\ total_lines = AuthorsTotal

C35_TotalIsSumOfPages == total_lines = PagesTotal

(***************************************************************************)
(* C38                                                                     *)
(***************************************************************************)
\* The author list of a cached page names no Author twice.
C38_NoAuthorTwice ==
    \A p \in DOMAIN pages :
        \A i, j \in 1..Len(pages[p].authors) :
            pages[p].authors[i] = pages[p].authors[j] => i = j

\* C38: the author list of a cached page names no Author twice, and every
\* Author in it is registered and holds at least one line on that page.
C38_PageAuthorsDistinctRegisteredWithLines ==
    /\ C38_NoAuthorTwice
    /\ \A p \in DOMAIN pages :
          \A i \in 1..Len(pages[p].authors) :
              /\ IsRegistered(pages[p].authors[i])
              /\ LinesOn(pages[p].authors[i], p) >= 1

(***************************************************************************)
(* C34                                                                     *)
(***************************************************************************)
\* C34: whenever raise_ci_warnings has returned or raised, the working
\* directory is the one the process was in when it was called.
C34_WorkingDirectoryRestored ==
    ci.pc = "done" => ci.cwd = ci.origin

C34_Witness ==
    /\ ci.pc = "done"
    /\ ci.err = "GitCommandError"
    /\ ci.path \in Dirs
    /\ ci.path # ci.origin
    /\ ci.cwd = ci.origin

====
